---- MODULE Spec2Model ----
(***************************************************************************)
(* Model of the run-data ingestion engine of the Corporate Serf Dashboard: *)
(* the parser (extract_data_from_file), the in-memory index                *)
(* (kovaaks_database, load_csv_file_into_database), the bulk load          *)
(* (initialize_kovaaks_data), the created-file handler                     *)
(* (NewFileHandler.on_created), the message queue and its consumers        *)
(* (check_for_new_data, generate_graph), and the readers of the index      *)
(* (get_scenario_num_runs, get_sensitivities_vs_runs_filtered).            *)
(*                                                                         *)
(* Specifications.  Spec: the bulk load.  SpecWatch: the bulk load and the  *)
(* watcher on every event.  SpecRead: the                                  *)
(* bulk load, the watcher and the page that reads the index.  SpecServe:   *)
(* the bulk load, the watcher and the consumers of the queue.  SpecPoll:   *)
(* the same under fair polling of the page.  SpecQuery: the bulk load,     *)
(* then the query operations.  SpecParse: the parser applied to one file.  *)
(* SpecList: get_unique_scenarios applied to one directory.                *)
(*                                                                         *)
(* Modules.  data_service.py is imported under two names, and so the       *)
(* process holds two module objects of it, each with a kovaaks_database of *)
(* its own: main() runs the bulk load of kovaaks.data_service, the watcher *)
(* and the pages call source.kovaaks.data_service.                         *)
(*                                                                         *)
(* Numbers.  A float read from a file is kept in thousandths (2.346 is     *)
(* 2346); -0.0, nan, inf and -inf are numbers of their own (NegativeZero,  *)
(* NaN, Infinity, NegativeInfinity), and floats are compared by FloatLess  *)
(* and FloatEq.  An integer literal is kept as the integer.  Timestamps    *)
(* are positive integers ordered like the datetimes they stand for.        *)
(***************************************************************************)
EXTENDS Integers, Sequences, FiniteSets, TLC

(***************************************************************************)
(* Bounds of the model.                                                    *)
(***************************************************************************)
MaxBulk == 3
MaxEvents == 2

(***************************************************************************)
(* config.sens_round_decimal_places (the value the tests configure).       *)
(***************************************************************************)
sens_round_decimal_places == 2

(***************************************************************************)
(* Text of a file.  A line (already split on ",") is a sequence of tokens; *)
(* a token is <<kind, text, number>>: S(text) is a text that is no decimal *)
(* literal ("abc", "", "nan", "-Infinity"), I(n) an integer literal such   *)
(* as 100, D(m) a decimal literal of m thousandths such as 2.346           *)
(* (D(NegativeZero) is "-0.0").                                            *)
(***************************************************************************)
S(text) == <<"s", text, 0>>
I(n) == <<"i", "", n>>
D(m) == <<"d", "", m>>

\* SUB_CSV_HEADER, abbreviated to its first three columns.
SUB_CSV_HEADER == <<S("Weapon"), S("Shots"), S("Hits")>>

\* Optional values: <<>> is None, <<v>> is the value v.
None == <<>>
Some(v) == <<v>>

\* A float is kept as the integer of its thousandths.  -0.0, which equals 0.0
\* and prints as "-0.0", is kept as a number of its own, and so are the floats
\* that are no finite number: nan, inf and -inf.
NegativeZero == -2147483647
NaN == 2147483647
Infinity == 2147483646
NegativeInfinity == -2147483646

\* The value of a float other than nan, by which floats are compared:
\* -0.0 == 0.0, and inf and -inf lie beyond every finite float.
FloatValue(x) == IF x = NegativeZero THEN 0 ELSE x

\* a < b for two floats: no comparison with nan holds.
FloatLess(a, b) == a # NaN /\ b # NaN /\ FloatValue(a) < FloatValue(b)

\* a <= b for two floats.
FloatLeq(a, b) == a # NaN /\ b # NaN /\ FloatValue(a) <= FloatValue(b)

\* a == b for two floats: nan equals nothing, itself included.
FloatEq(a, b) == a # NaN /\ b # NaN /\ FloatValue(a) = FloatValue(b)

\* ch.lower() for the letters of the names float() knows.
Lower(ch) ==
    CASE ch = "A" -> "a" [] ch = "F" -> "f" [] ch = "I" -> "i" [] ch = "N" -> "n"
      [] ch = "T" -> "t" [] ch = "Y" -> "y" [] OTHER -> ch

RECURSIVE LowerStr(_)
LowerStr(text) ==
    IF Len(text) = 0 THEN ""
    ELSE Lower(SubSeq(text, 1, 1)) \o LowerStr(SubSeq(text, 2, Len(text)))

\* float(text) for a text that is no decimal literal: "nan", "inf" and
\* "infinity", with a sign or without and in any case of the letters, are the
\* floats that are no finite number; any other text raises ValueError.
FloatOfName(text) ==
    LET signed == Len(text) > 0 /\ SubSeq(text, 1, 1) \in {"+", "-"}
        name == LowerStr(IF signed THEN SubSeq(text, 2, Len(text)) ELSE text)
    IN  IF name = "nan" THEN <<"ok", NaN>>
        ELSE IF name \in {"inf", "infinity"}
             THEN <<"ok", IF signed /\ SubSeq(text, 1, 1) = "-"
                          THEN NegativeInfinity ELSE Infinity>>
             ELSE <<"ValueError", 0>>

\* float(token): <<"ok", the float>> or <<"ValueError", 0>>.
Float(tok) ==
    CASE tok[1] = "i" -> <<"ok", tok[3] * 1000>>
      [] tok[1] = "d" -> <<"ok", tok[3]>>
      [] OTHER -> FloatOfName(tok[2])

\* int(token): only an integer literal converts.
Int_(tok) ==
    IF tok[1] = "i" THEN <<"ok", tok[3]>> ELSE <<"ValueError", 0>>

Abs(x) == IF x < 0 THEN -x ELSE x

\* str(x) of a float x: "5.0", "24.996", "-0.0", "nan", "inf", "-inf".
FloatStr(x) ==
    IF x = NegativeZero THEN "-0.0"
    ELSE IF x = NaN THEN "nan"
    ELSE IF x = Infinity THEN "inf"
    ELSE IF x = NegativeInfinity THEN "-inf"
    ELSE LET a == Abs(x)
             frac == a % 1000
         IN  (IF x < 0 THEN "-" ELSE "") \o ToString(a \div 1000) \o "." \o
             (IF frac % 100 = 0 THEN ToString(frac \div 100)
              ELSE IF frac % 10 = 0
                   THEN ToString(frac \div 100) \o ToString((frac \div 10) % 10)
                   ELSE ToString(frac \div 100) \o ToString((frac \div 10) % 10)
                        \o ToString(frac % 10))

\* The text of a token, as str.strip() leaves it: the literal itself.
Text(tok) ==
    CASE tok[1] = "s" -> tok[2]
      [] tok[1] = "i" -> ToString(tok[3])
      [] OTHER -> FloatStr(tok[3])

\* text.startswith(prefix)
StartsWith(text, prefix) ==
    Len(text) >= Len(prefix) /\ SubSeq(text, 1, Len(prefix)) = prefix

Pow10(n) == IF n <= 0 THEN 1 ELSE 10 ^ n

\* The exponent of the double nearest to a / 1000 (a > 0):
\* 2^e <= a / 1000 < 2^(e + 1).
RECURSIVE Exp2(_)
Exp2(a) ==
    IF a >= 2000 THEN Exp2(a \div 2) + 1
    ELSE IF a < 1000 THEN Exp2(a * 2) - 1
    ELSE 0

RECURSIVE Pow2Mod(_, _)
Pow2Mod(k, m) == IF k <= 0 THEN 1 % m ELSE (2 * Pow2Mod(k - 1, m)) % m

\* Where the double of the literal a / 1000 (a > 0) lies against a / 1000
\* itself: -1 below it, 0 on it, 1 above it.  The double is n / 2^k for the
\* integer n nearest to a * 2^k / 1000, with 53 significant bits.
DoubleError(a) ==
    LET k == 52 - Exp2(a)
        rem == ((a % 1000) * Pow2Mod(k, 1000)) % 1000
    IN  IF rem = 0 THEN 0 ELSE IF rem < 500 THEN -1 ELSE 1

\* round(x, places) on a float of v thousandths.  round() rounds the double
\* correctly: a literal that lies halfway between its neighbours goes where its
\* double lies (2.675 is below the half, 2.345 above it) and to the even
\* neighbour when the double is the literal (0.125, 2.5); the sign is kept, so
\* a negative x that rounds to zero gives -0.0.  -0.0, nan, inf and -inf round
\* to themselves.
Round(v, places) ==
    IF v \in {NegativeZero, NaN, Infinity, NegativeInfinity} THEN v
    ELSE
    LET a == Abs(v)
        u == Pow10(3 - places)
        q == a \div u
        r == a % u
        mag == IF 2 * r < u THEN q * u
               ELSE IF 2 * r > u THEN (q + 1) * u
               ELSE IF DoubleError(a) < 0 THEN q * u
               ELSE IF DoubleError(a) > 0 THEN (q + 1) * u
               ELSE IF q % 2 = 0 THEN q * u ELSE (q + 1) * u
    IN  IF v >= 0 THEN mag
        ELSE IF mag = 0 THEN NegativeZero ELSE -mag

RECURSIVE Gcd(_, _)
Gcd(a, b) == IF b = 0 THEN a ELSE Gcd(b, a % b)

\* hits / shots (shots # 0) as a fraction in lowest terms, denominator > 0.
Ratio(hits, shots) ==
    LET g == Gcd(Abs(hits), Abs(shots))
        sg == IF shots < 0 THEN -1 ELSE 1
    IN  <<sg * (hits \div g), sg * (shots \div g)>>

(***************************************************************************)
(* extract_data_from_file.  The state of the scan over the lines.          *)
(***************************************************************************)
ScanInit ==
    [sub_csv_line |-> FALSE, accuracy |-> None, horizontal_sens |-> None,
     scenario |-> None, score |-> None, sens_scale |-> None, exc |-> "none"]

\* The columns are taken the other way round: hits = int(tokens[1]),
\* shots = int(tokens[2]).
ScanSubRow_SwappedColumns(line, st) ==
    IF Len(line) < 2 THEN [st EXCEPT !.exc = "IndexError"]
    ELSE IF Int_(line[2])[1] # "ok" THEN [st EXCEPT !.exc = "ValueError"]
    ELSE IF Len(line) < 3 THEN [st EXCEPT !.exc = "IndexError"]
    ELSE IF Int_(line[3])[1] # "ok" THEN [st EXCEPT !.exc = "ValueError"]
    ELSE IF Int_(line[3])[2] = 0 THEN [st EXCEPT !.exc = "ZeroDivisionError"]
    ELSE [st EXCEPT !.accuracy = Some(Ratio(Int_(line[2])[2], Int_(line[3])[2])),
                    !.sub_csv_line = FALSE]

\* The sub-table row: shots = int(tokens[1]), hits = int(tokens[2]) (0-based).
ScanSubRow(line, st) ==
    IF Len(line) < 2 THEN [st EXCEPT !.exc = "IndexError"]
    ELSE IF Int_(line[2])[1] # "ok" THEN [st EXCEPT !.exc = "ValueError"]
    ELSE IF Len(line) < 3 THEN [st EXCEPT !.exc = "IndexError"]
    ELSE IF Int_(line[3])[1] # "ok" THEN [st EXCEPT !.exc = "ValueError"]
    ELSE IF Int_(line[2])[2] = 0 THEN [st EXCEPT !.exc = "ZeroDivisionError"]
    ELSE [st EXCEPT !.accuracy = Some(Ratio(Int_(line[3])[2], Int_(line[2])[2])),
                    !.sub_csv_line = FALSE]

\* A labelled line: line.startswith(label) is decided by the first token (no
\* label holds a comma), in the order of the if/elif chain; the value is the
\* second comma-separated token.
ScanLabel(line, st) ==
    LET head == Text(line[1])
        label == IF StartsWith(head, "Score:") THEN "Score:"
                 ELSE IF StartsWith(head, "Sens Scale:") THEN "Sens Scale:"
                 ELSE IF StartsWith(head, "Horiz Sens:") THEN "Horiz Sens:"
                 ELSE IF StartsWith(head, "Scenario:") THEN "Scenario:"
                 ELSE ""
    IN  IF label = "" THEN st
        ELSE IF Len(line) < 2 THEN [st EXCEPT !.exc = "IndexError"]
        ELSE CASE label = "Score:" ->
                    IF Float(line[2])[1] # "ok"
                    THEN [st EXCEPT !.exc = "ValueError"]
                    ELSE [st EXCEPT !.score = Some(Float(line[2])[2])]
               [] label = "Sens Scale:" ->
                    [st EXCEPT !.sens_scale = Some(Text(line[2]))]
               [] label = "Horiz Sens:" ->
                    IF Float(line[2])[1] # "ok"
                    THEN [st EXCEPT !.exc = "ValueError"]
                    ELSE [st EXCEPT !.horizontal_sens =
                            Some(Round(Float(line[2])[2], sens_round_decimal_places))]
               [] label = "Scenario:" ->
                    [st EXCEPT !.scenario = Some(Text(line[2]))]

ScanLine(line, st) ==
    IF line = SUB_CSV_HEADER THEN [st EXCEPT !.sub_csv_line = TRUE]
    ELSE IF st.sub_csv_line THEN ScanSubRow(line, st)
    ELSE ScanLabel(line, st)

RECURSIVE ScanLines(_, _, _)
ScanLines(lines, i, st) ==
    IF i > Len(lines) \/ st.exc # "none" THEN st
    ELSE ScanLines(lines, i + 1, ScanLine(lines[i], st))

\* The result of extract_data_from_file on a file:
\*   [st |-> "ok", rd |-> RunData], [st |-> "none"] (None is returned) or
\*   [st |-> "raise", exc |-> e] (exception e leaves the function).
extract_data_from_file(file) ==
    IF file.stamp = 0 THEN [st |-> "none"]
    ELSE IF ~file.readable THEN [st |-> "raise", exc |-> "OSError"]
    ELSE LET sc == ScanLines(file.lines, 1, ScanInit)
         IN  IF sc.exc = "ValueError" THEN [st |-> "none"]
             ELSE IF sc.exc # "none" THEN [st |-> "raise", exc |-> sc.exc]
             ELSE IF \/ sc.accuracy = None \/ sc.horizontal_sens = None
                     \/ sc.scenario = None \/ sc.score = None
                     \/ sc.sens_scale = None
                  THEN [st |-> "none"]
                  ELSE [st |-> "ok",
                        rd |-> [datetime_object |-> file.stamp,
                                score |-> sc.score[1],
                                sens_scale |-> sc.sens_scale[1],
                                horizontal_sens |-> sc.horizontal_sens[1],
                                scenario |-> sc.scenario[1],
                                accuracy |-> sc.accuracy[1]]]

(***************************************************************************)
(* The files the model draws its inputs from.                              *)
(***************************************************************************)
\* A well-formed result file.
WellFormed(scn, scale, hs, score, shots, hits, t) ==
    [stamp |-> t, readable |-> TRUE,
     lines |-> << <<S("Score:"), score>>,
                  <<S("Sens Scale:"), S(scale)>>,
                  <<S("Horiz Sens:"), hs>>,
                  <<S("Scenario:"), S(scn)>>,
                  SUB_CSV_HEADER,
                  <<S("Rifle"), I(shots), I(hits)>> >>]

BaseFile == WellFormed("A", "cm", I(5), I(95), 100, 50, 2)

GoodFiles ==
    { BaseFile,
      WellFormed("A", "cm", I(5), I(80), 100, 50, 1),
      WellFormed("A", "cm", D(5004), I(90), 100, 50, 3),
      WellFormed("A", "cm", I(5), D(90000), 100, 80, 2),
      WellFormed("A", "cm", D(24996), I(85), 100, 50, 2),
      WellFormed("B", "cm", I(5), I(70), 100, 50, 1) }

\* The name does not end in a timestamp (strptime raises ValueError).
BadNameFile == [BaseFile EXCEPT !.stamp = 0]
\* open() fails (a transient lock, a file already gone).
UnreadableFile == [BaseFile EXCEPT !.readable = FALSE]
\* No "Scenario:" line.
MissingFieldFile ==
    [BaseFile EXCEPT !.lines = SubSeq(BaseFile.lines, 1, 3) \o SubSeq(BaseFile.lines, 5, 6)]
\* "Score:,abc".
NonNumericFile == [BaseFile EXCEPT !.lines[1] = <<S("Score:"), S("abc")>>]
\* A label line without a comma: "Score:".
NoCommaFile == [BaseFile EXCEPT !.lines[1] = <<S("Score:")>>]
\* A sub-table row with zero shots.
ZeroShotsFile == [BaseFile EXCEPT !.lines[6] = <<S("Rifle"), I(0), I(0)>>]

BadFiles ==
    { BadNameFile, UnreadableFile, MissingFieldFile, NonNumericFile,
      NoCommaFile, ZeroShotsFile }

\* Files whose numbers float() takes and that are no decimal literal:
\* "Score:,nan" and "Horiz Sens:,NaN".
NaNScoreFile == WellFormed("A", "cm", I(5), S("nan"), 100, 50, 3)
NaNSensFile == WellFormed("A", "cm", S("NaN"), I(75), 100, 50, 1)

FloatFiles == { NaNScoreFile, NaNSensFile }

Files == GoodFiles \cup FloatFiles \cup BadFiles

\* What a file may have become when it is read a second time.
Rewrites ==
    { MissingFieldFile, UnreadableFile,
      WellFormed("A", "cm", I(5), I(80), 100, 50, 1),
      WellFormed("B", "cm", I(5), I(70), 100, 50, 1) }

NoFile == [stamp |-> 0, readable |-> FALSE, lines |-> <<>>]

NoRun ==
    [datetime_object |-> 0, score |-> 0, sens_scale |-> "", horizontal_sens |-> 0,
     scenario |-> "", accuracy |-> <<0, 1>>]

\* The file-system events: a directory (of a name that ends in .csv or not),
\* a file of another extension, a .csv file.
Events ==
    { [is_directory |-> TRUE, csv |-> FALSE, file |-> NoFile],
      [is_directory |-> TRUE, csv |-> TRUE, file |-> NoFile],
      [is_directory |-> FALSE, csv |-> FALSE, file |-> BaseFile] }
    \cup { [is_directory |-> FALSE, csv |-> TRUE, file |-> f] : f \in Files }

\* The events of the runs that follow a bulk load of any files, and of the
\* runs with requests: a directory, and .csv files that make a new scenario,
\* a new sensitivity, a run of an existing bucket and a file that does not
\* parse.
ServeEvents ==
    {e \in Events :
        \/ e.is_directory
        \/ /\ e.csv
           /\ e.file \in {BaseFile, WellFormed("A", "cm", D(24996), I(85), 100, 50, 2),
                          WellFormed("B", "cm", I(5), I(70), 100, 50, 1),
                          MissingFieldFile}}

(***************************************************************************)
(* The index: the kovaaks_database of a module maps a scenario name to     *)
(*   [scenario_stats |-> [date_last_played, number_of_runs],               *)
(*    sensitivities_vs_runs |-> SortedDict]                                *)
(* A SortedDict is [keys |-> its keys in iteration order,                  *)
(*                  map |-> key -> SortedList], a SortedList the sequence  *)
(* of its items in iteration order.                                        *)
(***************************************************************************)
\* The module objects of data_service.py: app.py imports
\* kovaaks.data_service; file_watchdog.py and the pages import
\* source.kovaaks.data_service.
AppModule == "kovaaks.data_service"
PageModule == "source.kovaaks.data_service"
Modules == {AppModule, PageModule}

\* f"{run_data.horizontal_sens} {run_data.sens_scale}"
SensitivityKey(rd) == <<rd.horizontal_sens, rd.sens_scale>>

\* The SortedDict's key function: float(item.split(" ")[0]), the float whose
\* str() begins the key.
KeySortValue(key) == key[1]

\* The SortedList's key function: item.score, a float.
ScoreOf(item) == item.score

\* bisect_right(a, x, lo, hi), positions counted from 0: the binary search
\* that goes left where x < a[mid] and right where not.
RECURSIVE BisectRight(_, _, _, _)
BisectRight(a, x, lo, hi) ==
    IF lo >= hi THEN lo
    ELSE LET mid == (lo + hi) \div 2
         IN  IF FloatLess(x, a[mid + 1]) THEN BisectRight(a, x, lo, mid)
             ELSE BisectRight(a, x, mid + 1, hi)

\* SortedKeyList.add, the position the item is given among the keys of the
\* items held (fewer than the load of one sublist): the end when the key is
\* not below the key of the last item (bisect_right on _maxes), the place
\* bisect_right finds among the keys when it is.
AddPosition(keys, key) ==
    IF keys = <<>> THEN 0
    ELSE IF BisectRight(<<keys[Len(keys)]>>, key, 0, 1) = 1 THEN Len(keys)
    ELSE BisectRight(keys, key, 0, Len(keys))

InsertAt(seq, pos, x) ==
    SubSeq(seq, 1, pos) \o <<x>> \o SubSeq(seq, pos + 1, Len(seq))

\* SortedList.add(item)
SortedListAdd(list, item) ==
    InsertAt(list, AddPosition([i \in 1..Len(list) |-> ScoreOf(list[i])],
                               ScoreOf(item)), item)

\* SortedDict.__setitem__(key, value) for a key not yet present does two
\* things, in this order.  First the key joins the sorted list of the keys
\* (self._list_add(key)), after the keys of an equal number.
SortedDictListAdd(sd, key) ==
    [sd EXCEPT !.keys =
        InsertAt(sd.keys,
                 AddPosition([i \in 1..Len(sd.keys) |-> KeySortValue(sd.keys[i])],
                             KeySortValue(key)), key)]

\* Then the dict takes the value (dict.__setitem__(self, key, value)).
SortedDictDictSet(sd, key, value) ==
    [sd EXCEPT !.map = [k \in DOMAIN sd.map \cup {key} |->
                           IF k = key THEN value ELSE sd.map[k]]]

\* The two together, on a SortedDict no other thread can see.
SortedDictSet(sd, key, value) ==
    SortedDictDictSet(SortedDictListAdd(sd, key), key, value)

\* Every key of the list of the keys has its value in the dict: no
\* __setitem__ is half done.
KeysHaveValues(sd) == \A i \in 1..Len(sd.keys) : sd.keys[i] \in DOMAIN sd.map

EmptySortedDict == [keys |-> <<>>, map |-> [k \in {} |-> <<>>]]

(***************************************************************************)
(* State.                                                                  *)
(***************************************************************************)
VARIABLES
    kovaaks_database,  \* data_service.kovaaks_database, of each module object
    message_queue,     \* my_queue.message_queue: the messages it holds, oldest first
    phase,             \* main(): "init" (bulk load), "serving", "crashed"
    csv_files,         \* initialize_kovaaks_data: the files scandir found
    bulk_i,            \* initialize_kovaaks_data: position of the for loop
    l_pc,              \* load_csv_file_into_database: position
    l_run_data,        \* load_csv_file_into_database: run_data
    w_pc,              \* on_created: position
    w_file,            \* the content on disk of the file of the last .csv event
    w_changed,         \* the file was rewritten since on_created read it
    w_run_data,        \* on_created: run_data
    w_nth_score,       \* on_created: nth_score
    w_exc,             \* the exception that left the last on_created ("none": it returned)
    events,            \* the number of events delivered so far
    seen,              \* what the page shows of the index
    g_pc,              \* generate_graph: the position of each running callback
    delivered,         \* generate_graph: the messages message_queue.get() returned
    c_result,          \* the last call of check_for_new_data and how it ended
    do_update_data,    \* the data of the dcc.Store "do_update" in the browser
    q_result,          \* the last call of a query operation and what it returned
    p_file,            \* the file extract_data_from_file is applied to
    p_result,          \* what extract_data_from_file returned for it
    u_dir,             \* the entries of the directory get_unique_scenarios lists
    u_result           \* what get_unique_scenarios returned for it

vars ==
    <<kovaaks_database, message_queue, phase, csv_files, bulk_i, l_pc, l_run_data,
      w_pc, w_file, w_changed, w_run_data, w_nth_score, w_exc, events, seen,
      g_pc, delivered, c_result, do_update_data, q_result, p_file, p_result, u_dir, u_result>>

w_vars == <<w_pc, w_file, w_changed, w_run_data, w_nth_score, w_exc, events>>

\* The state of the request handlers' dequeue, of the query operations, of
\* the parser applied on its own and of the listing of the scenarios.
other_vars == <<g_pc, delivered, c_result, do_update_data, q_result, p_file, p_result, u_dir, u_result>>

\* The callbacks of the server that may run at the same time.
Callbacks == {"c1", "c2"}

NoResult == [op |-> "none"]

NoSeen ==
    [selected_scenario |-> "", number_of_runs |-> 0, counted |-> FALSE,
     records |-> 0, read |-> "none"]

\* The state after construction, but for the files of the statistics directory
\* and the file the parser is applied to.
InitCommon ==
    /\ kovaaks_database = [m \in Modules |-> [s \in {} |-> 0]]
    /\ message_queue = <<>>
    /\ phase = "init"
    /\ bulk_i = 1
    /\ l_pc = "idle"
    /\ l_run_data = NoRun
    /\ w_pc = "idle"
    /\ w_file = NoFile
    /\ w_changed = FALSE
    /\ w_run_data = NoRun
    /\ w_nth_score = 0
    /\ w_exc = "none"
    /\ events = 0
    /\ seen = NoSeen
    /\ g_pc = [c \in Callbacks |-> "idle"]
    /\ delivered = <<>>
    /\ c_result = NoResult
    /\ do_update_data = "None"
    /\ q_result = NoResult
    /\ p_result = NoResult
    /\ u_result = NoResult

Init ==
    /\ InitCommon
    /\ csv_files \in UNION { [1..n -> Files] : n \in 0..MaxBulk }
    /\ p_file = NoFile
    /\ u_dir = <<>>

(***************************************************************************)
(* Queries of the index.                                                   *)
(***************************************************************************)
\* The functions of module object m read the kovaaks_database of m.
is_scenario_in_database(m, scenario_name) ==
    scenario_name \in DOMAIN kovaaks_database[m]

get_scenario_stats(m, scenario_name) ==
    kovaaks_database[m][scenario_name].scenario_stats

get_sensitivities_vs_runs(m, scenario_name) ==
    kovaaks_database[m][scenario_name].sensitivities_vs_runs

RECURSIVE SumLen(_, _)
SumLen(sd, i) ==
    IF i > Len(sd.keys) THEN 0 ELSE Len(sd.map[sd.keys[i]]) + SumLen(sd, i + 1)

\* The number of records held in the buckets of an entry.
TotalRecords(entry) == SumLen(entry.sensitivities_vs_runs, 1)

(***************************************************************************)
(* load_csv_file_into_database(csv_file).  The file it reads is the one    *)
(* its caller names: the bulk load's current file, or the event's file as  *)
(* it is on disk now.  (The observer watches config.stats_dir, an absolute *)
(* path, so that event.src_path and Path(config.stats_dir, event.src_path) *)
(* name the same file.)                                                    *)
(***************************************************************************)
CurFile == IF phase = "init" THEN csv_files[bulk_i] ELSE w_file

\* The module object whose load_csv_file_into_database runs: the one app.py
\* imported for the bulk load, the one file_watchdog.py imported for the
\* handler.
LoadModule == IF phase = "init" THEN AppModule ELSE PageModule

\* The function returns (exc = "none") or an exception leaves it, to its caller:
\* the for loop of initialize_kovaaks_data, or on_created.
LoadReturn(exc) ==
    /\ l_pc' = "idle"
    /\ l_run_data' = NoRun
    /\ IF phase = "init"
       THEN /\ IF exc = "none"
               THEN phase' = phase /\ bulk_i' = bulk_i + 1
               ELSE phase' = "crashed" /\ bulk_i' = bulk_i
            /\ UNCHANGED w_vars
       ELSE /\ w_pc' = "idle"
            /\ w_exc' = exc
            /\ w_changed' = FALSE
            /\ w_run_data' = NoRun
            /\ w_nth_score' = 0
            /\ UNCHANGED <<phase, bulk_i, events, w_file>>

\* The entry of a scenario seen for the first time.
NewEntry(run_data) ==
    [scenario_stats |-> [date_last_played |-> run_data.datetime_object,
                         number_of_runs |-> 1],
     sensitivities_vs_runs |->
        SortedDictSet(EmptySortedDict, SensitivityKey(run_data),
                      SortedListAdd(<<>>, run_data))]

\* Lines 142-164: parse; None returns; a new scenario is stored whole.
LoadExtract ==
    /\ l_pc = "extract"
    /\ LET r == extract_data_from_file(CurFile)
       IN  CASE r.st = "none" ->
                    /\ LoadReturn("none")
                    /\ UNCHANGED kovaaks_database
             [] r.st = "raise" ->
                    /\ LoadReturn(r.exc)
                    /\ UNCHANGED kovaaks_database
             [] r.st = "ok" ->
                    IF ~is_scenario_in_database(LoadModule, r.rd.scenario)
                    THEN /\ kovaaks_database' =
                              [kovaaks_database EXCEPT ![LoadModule] =
                                  [s \in DOMAIN @ \cup {r.rd.scenario} |->
                                      IF s = r.rd.scenario THEN NewEntry(r.rd)
                                      ELSE @[s]]]
                         /\ LoadReturn("none")
                    ELSE /\ l_pc' = "L168"
                         /\ l_run_data' = r.rd
                         /\ UNCHANGED <<kovaaks_database, phase, bulk_i, w_vars>>
    /\ UNCHANGED <<message_queue, csv_files, seen, other_vars>>

\* The count of the runs is left as it is.
Load168_NoIncrement ==
    /\ l_pc = "L168"
    /\ l_pc' = "L169"
    /\ UNCHANGED <<kovaaks_database, message_queue, phase, csv_files, bulk_i,
                   l_run_data, w_vars, seen, other_vars>>

\* Line 168: scenario_stats.number_of_runs += 1
Load168 ==
    /\ l_pc = "L168"
    /\ kovaaks_database' =
          [kovaaks_database EXCEPT
              ![LoadModule][l_run_data.scenario].scenario_stats.number_of_runs = @ + 1]
    /\ l_pc' = "L169"
    /\ UNCHANGED <<message_queue, phase, csv_files, bulk_i, l_run_data, w_vars, seen, other_vars>>

Max(a, b) == IF a >= b THEN a ELSE b

\* The date of the run just loaded replaces the date, without the max.
Load169_Overwrite ==
    /\ l_pc = "L169"
    /\ kovaaks_database' =
          [kovaaks_database EXCEPT
              ![LoadModule][l_run_data.scenario].scenario_stats.date_last_played =
                  l_run_data.datetime_object]
    /\ l_pc' = "L175"
    /\ UNCHANGED <<message_queue, phase, csv_files, bulk_i, l_run_data, w_vars, seen, other_vars>>

\* Lines 169-171: date_last_played = max(date_last_played, datetime_object)
Load169 ==
    /\ l_pc = "L169"
    /\ kovaaks_database' =
          [kovaaks_database EXCEPT
              ![LoadModule][l_run_data.scenario].scenario_stats.date_last_played =
                  Max(@, l_run_data.datetime_object)]
    /\ l_pc' = "L175"
    /\ UNCHANGED <<message_queue, phase, csv_files, bulk_i, l_run_data, w_vars, seen, other_vars>>

\* The SortedList is created whether or not the key is present: the runs of
\* an existing bucket are dropped.
Load175_AlwaysNew ==
    /\ l_pc = "L175"
    /\ LET key == SensitivityKey(l_run_data)
           sd == get_sensitivities_vs_runs(LoadModule, l_run_data.scenario)
       IN  kovaaks_database' =
              IF key \in DOMAIN sd.map
              THEN [kovaaks_database EXCEPT
                      ![LoadModule][l_run_data.scenario].sensitivities_vs_runs.map[key] = <<>>]
              ELSE [kovaaks_database EXCEPT
                      ![LoadModule][l_run_data.scenario].sensitivities_vs_runs =
                          SortedDictSet(sd, key, <<>>)]
    /\ l_pc' = "L179"
    /\ UNCHANGED <<message_queue, phase, csv_files, bulk_i, l_run_data, w_vars, seen, other_vars>>

\* Lines 174-176: the test of the key; for a sensitivity key not yet present
\* the assignment begins, and the key joins the keys of the SortedDict.
Load175 ==
    /\ l_pc = "L175"
    /\ LET key == SensitivityKey(l_run_data)
           sd == get_sensitivities_vs_runs(LoadModule, l_run_data.scenario)
       IN  IF key \in DOMAIN sd.map
           THEN /\ l_pc' = "L179"
                /\ UNCHANGED kovaaks_database
           ELSE /\ l_pc' = "L176"
                /\ kovaaks_database' =
                      [kovaaks_database EXCEPT
                          ![LoadModule][l_run_data.scenario].sensitivities_vs_runs =
                              SortedDictListAdd(sd, key)]
    /\ UNCHANGED <<message_queue, phase, csv_files, bulk_i, l_run_data, w_vars, seen, other_vars>>

\* Lines 176-178: the assignment ends, and the dict holds an empty SortedList
\* under the key.
Load176 ==
    /\ l_pc = "L176"
    /\ kovaaks_database' =
          [kovaaks_database EXCEPT
              ![LoadModule][l_run_data.scenario].sensitivities_vs_runs =
                  SortedDictDictSet(@, SensitivityKey(l_run_data), <<>>)]
    /\ l_pc' = "L179"
    /\ UNCHANGED <<message_queue, phase, csv_files, bulk_i, l_run_data, w_vars, seen, other_vars>>

\* The record is added to the first bucket of the scenario, whatever its key.
Load179_FirstBucket ==
    /\ l_pc = "L179"
    /\ kovaaks_database' =
          [kovaaks_database EXCEPT
              ![LoadModule][l_run_data.scenario].sensitivities_vs_runs.map[
                    get_sensitivities_vs_runs(LoadModule, l_run_data.scenario).keys[1]] =
                  SortedListAdd(@, l_run_data)]
    /\ LoadReturn("none")
    /\ UNCHANGED <<message_queue, csv_files, seen, other_vars>>

\* Line 179: sens_vs_runs[sensitivity_key].add(run_data), then return.
Load179 ==
    /\ l_pc = "L179"
    /\ kovaaks_database' =
          [kovaaks_database EXCEPT
              ![LoadModule][l_run_data.scenario].sensitivities_vs_runs.map[SensitivityKey(l_run_data)] =
                  SortedListAdd(@, l_run_data)]
    /\ LoadReturn("none")
    /\ UNCHANGED <<message_queue, csv_files, seen, other_vars>>

(***************************************************************************)
(* initialize_kovaaks_data and main.                                       *)
(***************************************************************************)
\* The for loop calls load_csv_file_into_database on the next file.
BulkNext ==
    /\ phase = "init"
    /\ l_pc = "idle"
    /\ bulk_i <= Len(csv_files)
    /\ l_pc' = "extract"
    /\ UNCHANGED <<kovaaks_database, message_queue, phase, csv_files, bulk_i,
                   l_run_data, w_vars, seen, other_vars>>

\* The observer is started before initialize_kovaaks_data is called: events
\* are handled while the bulk load runs.
StartServing_BeforeBulkLoad ==
    /\ phase = "init"
    /\ phase' = "serving"
    /\ UNCHANGED <<kovaaks_database, message_queue, csv_files, bulk_i, l_pc,
                   l_run_data, w_vars, seen, other_vars>>

\* The bulk load is over (its locals are gone): main starts the observer and
\* runs the server.  The index the bulk load has built stays in its module;
\* the handler and the pages work on that of the module they imported.
StartServing ==
    /\ phase = "init"
    /\ l_pc = "idle"
    /\ bulk_i > Len(csv_files)
    /\ phase' = "serving"
    /\ csv_files' = <<>>
    /\ bulk_i' = 1
    /\ UNCHANGED <<kovaaks_database, message_queue, l_pc, l_run_data, w_vars, seen, other_vars>>

(***************************************************************************)
(* NewFileHandler.on_created(event).                                       *)
(***************************************************************************)
\* A rank counted from 0 instead of 1.
NewFileMessage_ZeroBased(nth, run_data) ==
    [nth_score |-> nth - 1, scenario_name |-> run_data.scenario,
     score |-> run_data.score, sensitivity |-> <<run_data.horizontal_sens, run_data.sens_scale>>]

\* NewFileMessage (datetime_created, the wall clock, is left out).
NewFileMessage(nth, run_data) ==
    [nth_score |-> nth, scenario_name |-> run_data.scenario,
     score |-> run_data.score, sensitivity |-> SensitivityKey(run_data)]

\* on_created returns (exc = "none") or an exception leaves it; its locals are
\* gone, the file stays on disk.
HandlerReturn(exc) ==
    /\ w_pc' = "idle"
    /\ w_exc' = exc
    /\ w_changed' = FALSE
    /\ w_run_data' = NoRun
    /\ w_nth_score' = 0

\* The test of the extension is missing: every file is taken to be a result
\* file.
OnCreated_NoExtensionCheck(event) ==
    /\ phase = "serving"
    /\ w_pc = "idle"
    /\ events < MaxEvents
    /\ events' = events + 1
    /\ IF event.is_directory
       THEN HandlerReturn("none") /\ UNCHANGED w_file
       ELSE /\ w_pc' = "sleep"
            /\ w_file' = event.file
            /\ w_exc' = "none"
            /\ UNCHANGED <<w_changed, w_run_data, w_nth_score>>
    /\ UNCHANGED <<kovaaks_database, message_queue, phase, csv_files, bulk_i,
                   l_pc, l_run_data, seen, other_vars>>

\* Lines 31-41: a directory or a file that is no .csv is dropped; else sleep.
OnCreated(event) ==
    /\ phase = "serving"
    /\ w_pc = "idle"
    /\ events < MaxEvents
    /\ events' = events + 1
    /\ IF event.is_directory \/ ~event.csv
       THEN HandlerReturn("none") /\ UNCHANGED w_file
       ELSE /\ w_pc' = "sleep"
            /\ w_file' = event.file
            /\ w_exc' = "none"
            /\ UNCHANGED <<w_changed, w_run_data, w_nth_score>>
    /\ UNCHANGED <<kovaaks_database, message_queue, phase, csv_files, bulk_i,
                   l_pc, l_run_data, seen, other_vars>>

\* The early return on a failed parse is missing.
WExtract_NoEarlyReturn ==
    /\ w_pc = "sleep"
    /\ LET r == extract_data_from_file(w_file)
       IN  CASE r.st = "raise" -> HandlerReturn(r.exc)
             [] OTHER ->
                    /\ w_pc' = "parsed"
                    /\ w_run_data' = IF r.st = "ok" THEN r.rd ELSE NoRun
                    /\ UNCHANGED <<w_changed, w_nth_score, w_exc>>
    /\ UNCHANGED <<kovaaks_database, message_queue, phase, csv_files, bulk_i,
                   l_pc, l_run_data, events, seen, w_file, other_vars>>

\* Lines 42-45: the first parse of the file.
WExtract ==
    /\ w_pc = "sleep"
    /\ LET r == extract_data_from_file(w_file)
       IN  CASE r.st = "none" -> HandlerReturn("none") /\ UNCHANGED w_file
             [] r.st = "raise" -> HandlerReturn(r.exc) /\ UNCHANGED w_file
             [] r.st = "ok" ->
                    /\ w_pc' = "parsed"
                    /\ w_run_data' = r.rd
                    /\ UNCHANGED <<w_file, w_changed, w_nth_score, w_exc>>
    /\ UNCHANGED <<kovaaks_database, message_queue, phase, csv_files, bulk_i,
                   l_pc, l_run_data, events, seen, other_vars>>

\* Case 1 (new scenario) or case 2 (new sensitivity) holds for run_data, in
\* the index of the module file_watchdog.py imported.
IsNewCase(run_data) ==
    IF ~is_scenario_in_database(PageModule, run_data.scenario) THEN TRUE
    ELSE SensitivityKey(run_data) \notin
             DOMAIN get_sensitivities_vs_runs(PageModule, run_data.scenario).map

\* Lines 49-78: message_queue.put(nth_score=1), then load_csv_file_into_database.
WNewCase ==
    /\ w_pc = "parsed"
    /\ IsNewCase(w_run_data)
    /\ message_queue' = Append(message_queue, NewFileMessage(1, w_run_data))
    /\ w_pc' = "load"
    /\ l_pc' = "extract"
    /\ UNCHANGED <<kovaaks_database, phase, csv_files, bulk_i, l_run_data,
                   w_file, w_changed, w_run_data, w_nth_score, w_exc, events, seen, other_vars>>

\* Lines 81-85: 1 + the number of runs of the bucket that score more
\* (prev_run_data.score > run_data.score, on floats).
NthScore(bucket, run_data) ==
    1 + Cardinality({i \in 1..Len(bucket) :
                        FloatLess(run_data.score, bucket[i].score)})

\* Case 3, lines 80-91: the rank among the runs of the bucket.
WRank ==
    /\ w_pc = "parsed"
    /\ ~IsNewCase(w_run_data)
    /\ w_nth_score' =
          NthScore(get_sensitivities_vs_runs(PageModule, w_run_data.scenario).map[
                       SensitivityKey(w_run_data)], w_run_data)
    /\ w_pc' = "notify"
    /\ UNCHANGED <<kovaaks_database, message_queue, phase, csv_files, bulk_i,
                   l_pc, l_run_data, w_file, w_changed, w_run_data, w_exc, events,
                   seen, other_vars>>

\* The scores of the runs of a scenario, bucket after bucket from position i.
RECURSIVE ScoresOf(_, _)
ScoresOf(sd, i) ==
    IF i > Len(sd.keys) THEN <<>>
    ELSE [j \in 1..Len(sd.map[sd.keys[i]]) |-> sd.map[sd.keys[i]][j].score]
            \o ScoresOf(sd, i + 1)

\* max(scores): the first score, replaced by each later one that is above it.
RECURSIVE MaxScore(_, _, _)
MaxScore(scores, i, best) ==
    IF i > Len(scores) THEN best
    ELSE MaxScore(scores, i + 1,
                  IF FloatLess(best, scores[i]) THEN scores[i] ELSE best)

\* The highest score recorded for a scenario (one that has a run).
get_high_score(m, scenario_name) ==
    LET scores == ScoresOf(get_sensitivities_vs_runs(m, scenario_name), 1)
    IN  MaxScore(scores, 2, scores[1])

\* Case 3, lines 93-116: the division by the high score (0.0 and -0.0 raise),
\* then message_queue.append, which queue.Queue does not have.
NotifyOutcome(high_score) ==
    IF FloatEq(high_score, 0) THEN "ZeroDivisionError" ELSE "AttributeError"

WNotify ==
    /\ w_pc = "notify"
    /\ HandlerReturn(NotifyOutcome(get_high_score(PageModule, w_run_data.scenario)))
    /\ UNCHANGED w_file
    /\ UNCHANGED <<kovaaks_database, message_queue, phase, csv_files, bulk_i,
                   l_pc, l_run_data, events, seen, other_vars>>

\* The game rewrites the file between the handler's read of it and the read
\* that load_csv_file_into_database makes.  The name of the file, and with it
\* the date the parser takes from the name, stays.
FileChanges ==
    /\ w_pc = "load"
    /\ l_pc = "extract"
    /\ ~w_changed
    /\ w_changed' = TRUE
    /\ w_file' \in {[f EXCEPT !.stamp = w_file.stamp] : f \in Rewrites} \ {w_file}
    /\ UNCHANGED <<kovaaks_database, message_queue, phase, csv_files, bulk_i,
                   l_pc, l_run_data, w_pc, w_run_data, w_nth_score, w_exc, events,
                   seen, other_vars>>

(***************************************************************************)
(* The page reads the index of the module it imported with two callbacks,  *)
(* each a request of its own on a thread other than the watcher's, and     *)
(* both with the selection of the scenario among their Inputs: a new       *)
(* selection calls the two, and they are served in no fixed order.         *)
(* get_scenario_num_runs reads the stats of the selected scenario,         *)
(* generate_graph its buckets.  seen is what the page of the last          *)
(* selection shows: the number of runs, once get_scenario_num_runs has     *)
(* answered (counted), and, once generate_graph has answered (read is      *)
(* "ok", or the exception that left it), the number of the records it was  *)
(* given to plot without a limit on their number or their date.            *)
(***************************************************************************)
Scenarios == {"A", "B"}

\* The user selects a scenario: the two callbacks are due.
SelectScenario(selected_scenario) ==
    /\ phase = "serving"
    /\ seen' = [selected_scenario |-> selected_scenario, number_of_runs |-> 0,
                counted |-> FALSE, records |-> 0, read |-> "none"]
    /\ UNCHANGED <<kovaaks_database, message_queue, phase, csv_files, bulk_i,
                   l_pc, l_run_data, w_vars, other_vars>>

\* home.py, get_scenario_num_runs (lines 78-94), for the selection.
GetScenarioNumRuns ==
    /\ phase = "serving"
    /\ seen.selected_scenario # ""
    /\ ~seen.counted
    /\ seen' =
          [seen EXCEPT
              !.counted = TRUE,
              !.number_of_runs =
                  IF ~is_scenario_in_database(PageModule, seen.selected_scenario) THEN 0
                  ELSE get_scenario_stats(PageModule, seen.selected_scenario).number_of_runs]
    /\ UNCHANGED <<kovaaks_database, message_queue, phase, csv_files, bulk_i,
                   l_pc, l_run_data, w_vars, other_vars>>

\* home.py, generate_graph (lines 128-145), for the selection: the iteration
\* over the items of the SortedDict (data_service.py, lines 62-64) raises
\* KeyError at a key the dict does not hold yet.
GraphReadsIndex ==
    /\ phase = "serving"
    /\ seen.selected_scenario # ""
    /\ seen.read = "none"
    /\ seen' =
          IF ~is_scenario_in_database(PageModule, seen.selected_scenario)
          THEN [seen EXCEPT !.read = "ok"]
          ELSE IF ~KeysHaveValues(get_sensitivities_vs_runs(PageModule, seen.selected_scenario))
          THEN [seen EXCEPT !.read = "KeyError"]
          ELSE [seen EXCEPT !.read = "ok",
                            !.records = TotalRecords(
                                kovaaks_database[PageModule][seen.selected_scenario])]
    /\ UNCHANGED <<kovaaks_database, message_queue, phase, csv_files, bulk_i,
                   l_pc, l_run_data, w_vars, other_vars>>

\* The bulk load of every sequence of at most MaxBulk files, up to the start
\* of the observer and of the server.
Next ==
    \/ BulkNext
    \/ StartServing
    \/ LoadExtract
    \/ Load168
    \/ Load169
    \/ Load175
    \/ Load176
    \/ Load179

Spec == Init /\ [][Next]_vars

(***************************************************************************)
(* get_sensitivities_vs_runs_filtered(scenario_name, top_n_scores,         *)
(* oldest_date).  The dict it returns is, like a SortedDict, its keys in    *)
(* iteration (insertion) order and the list of each key.                   *)
(***************************************************************************)
MaxTopN == 3

\* The values of the "Top N scores" input (0: the function called directly).
TopNs == 0..MaxTopN

\* The oldest dates asked for: the dates of the runs, and a date after them all.
OldestDates == {f.stamp : f \in GoodFiles} \cup {f.stamp + 1 : f \in GoodFiles}

\* Lines 67-74: reversed(runs_data) from position i down; a run older than
\* oldest_date is skipped, any other is appended, and the scan stops as soon
\* as the list holds top_n_scores runs or more.
RECURSIVE FilterBucket(_, _, _, _, _)
FilterBucket(runs_data, i, top_n_scores, oldest_date, acc) ==
    IF i < 1 THEN acc
    ELSE IF runs_data[i].datetime_object < oldest_date
         THEN FilterBucket(runs_data, i - 1, top_n_scores, oldest_date, acc)
         ELSE IF Len(acc) + 1 >= top_n_scores THEN Append(acc, runs_data[i])
              ELSE FilterBucket(runs_data, i - 1, top_n_scores, oldest_date,
                                Append(acc, runs_data[i]))

\* The filtered lists are returned with their keys, the empty ones too.
DropEmpty_KeepAll(keys, lists) == [keys |-> keys, map |-> lists]

\* Lines 76-77: del filtered_data[key] for a key whose list is empty.
DropEmpty(keys, lists) ==
    [keys |-> SelectSeq(keys, LAMBDA k : lists[k] # <<>>),
     map |-> [k \in {x \in DOMAIN lists : lists[x] # <<>>} |-> lists[k]]]

\* [st |-> "ok", val |-> the dict] or, for a scenario that is not in the index
\* and for a SortedDict whose iteration comes to a key the dict does not hold
\* yet, [st |-> "raise", exc |-> "KeyError"].
get_sensitivities_vs_runs_filtered(m, scenario_name, top_n_scores, oldest_date) ==
    IF ~is_scenario_in_database(m, scenario_name)
    THEN [st |-> "raise", exc |-> "KeyError"]
    ELSE LET sd == kovaaks_database[m][scenario_name].sensitivities_vs_runs
         IN  IF ~KeysHaveValues(sd) THEN [st |-> "raise", exc |-> "KeyError"]
             ELSE
             [st |-> "ok",
              val |-> DropEmpty(sd.keys,
                         [k \in DOMAIN sd.map |->
                             FilterBucket(sd.map[k], Len(sd.map[k]), top_n_scores,
                                          oldest_date, <<>>)])]

(***************************************************************************)
(* The consumers of message_queue (home.py), run by the server on          *)
(* concurrent request threads.  The arguments of a callback are what the   *)
(* request carries.                                                        *)
(***************************************************************************)
\* check_for_new_data, lines 55-68: len(message_queue) at line 62 raises
\* TypeError, queue.Queue having no __len__; lines 65-68 are never reached,
\* and the callback gives its Output, the data of "do_update", no value.
CheckForNewData(selected_scenario) ==
    /\ phase = "serving"
    /\ c_result' = [op |-> "check_for_new_data",
                     selected_scenario |-> selected_scenario,
                     st |-> "TypeError", ret |-> "none"]
    /\ UNCHANGED <<kovaaks_database, message_queue, phase, csv_files, bulk_i,
                   l_pc, l_run_data, w_vars, seen, g_pc, delivered, q_result,
                   p_file, p_result, u_dir, u_result, do_update_data>>

\* The values of x_axis_radiogroup: the two the page offers, and "other" for
\* any other value a request carries.
XAxes == {"score_vs_sensitivity", "score_vs_time", "other"}

\* get_time_vs_runs(scenario_name, top_n_scores, oldest_date): for each day
\* that has a run of the scenario not older than oldest_date, the runs of
\* that day that have fewer than top_n_scores runs of the day above them.
get_time_vs_runs(m, scenario_name, top_n_scores, oldest_date) ==
    LET sd == kovaaks_database[m][scenario_name].sensitivities_vs_runs
        runs == UNION { {sd.map[k][i] : i \in 1..Len(sd.map[k])} : k \in DOMAIN sd.map }
        recent == {r \in runs : r.datetime_object >= oldest_date}
    IN  [t \in {r.datetime_object : r \in recent} |->
            {r \in recent :
                /\ r.datetime_object = t
                /\ Cardinality({q \in recent : /\ q.datetime_object = t
                                                /\ FloatLess(r.score, q.score)})
                    < top_n_scores}]

\* generate_graph reaches line 210: none of the early returns is taken and no
\* exception leaves the read of the index.  An x_axis_radiogroup that is
\* neither of the two values reads nothing and goes on (line 187).
ReachesDequeue(x_axis_radiogroup, selected_scenario, top_n_scores, oldest_date) ==
    /\ top_n_scores # 0
    /\ is_scenario_in_database(PageModule, selected_scenario)
    /\ CASE x_axis_radiogroup = "score_vs_sensitivity" ->
                LET r == get_sensitivities_vs_runs_filtered(
                             PageModule, selected_scenario, top_n_scores, oldest_date)
                IN  r.st = "ok" /\ r.val.keys # <<>>
          [] x_axis_radiogroup = "score_vs_time" ->
                DOMAIN get_time_vs_runs(PageModule, selected_scenario, top_n_scores,
                                        oldest_date) # {}
          [] OTHER -> TRUE

\* generate_graph, lines 108-210, in callback c: the early returns, the read of
\* the index, and the probe "do_update and not message_queue.empty()".
GenerateGraph(c, do_update, selected_scenario, top_n_scores, oldest_date, x_axis_radiogroup) ==
    /\ phase = "serving"
    /\ g_pc[c] = "idle"
    /\ g_pc' = IF /\ ReachesDequeue(x_axis_radiogroup, selected_scenario,
                                     top_n_scores, oldest_date)
                  /\ do_update
                  /\ message_queue # <<>>
               THEN [g_pc EXCEPT ![c] = "get"]
               ELSE g_pc
    /\ UNCHANGED <<kovaaks_database, message_queue, phase, csv_files, bulk_i,
                   l_pc, l_run_data, w_vars, seen, delivered, c_result, do_update_data, q_result,
                   p_file, p_result, u_dir, u_result>>

\* The newest message is taken, not the oldest.
QueueGet_Lifo(q) == <<q[Len(q)], SubSeq(q, 1, Len(q) - 1)>>

\* queue.Queue.get(): the oldest message, and the messages that stay.
QueueGet(q) == <<Head(q), Tail(q)>>

\* generate_graph, lines 211-229: message_queue.get() waits while the queue is
\* empty; with the message the callback builds its notification and returns.
GReceive(c) ==
    /\ g_pc[c] = "get"
    /\ message_queue # <<>>
    /\ delivered' = Append(delivered, QueueGet(message_queue)[1])
    /\ message_queue' = QueueGet(message_queue)[2]
    /\ g_pc' = [g_pc EXCEPT ![c] = "idle"]
    /\ UNCHANGED <<kovaaks_database, phase, csv_files, bulk_i, l_pc, l_run_data,
                   w_vars, seen, c_result, do_update_data, q_result, p_file, p_result, u_dir, u_result>>

\* The statistics directories of the runs with the watcher and with the
\* requests of the server: an empty one, and one of one file.  (What the bulk
\* load makes of a directory is read by neither.)
ServeDirs == { <<>>, <<BaseFile>> }

InitServe ==
    /\ InitCommon
    /\ csv_files \in ServeDirs
    /\ p_file = NoFile
    /\ u_dir = <<>>

\* The arguments the requests carry: no top-N value or the largest, the
\* earliest or the latest of the dates.
GraphTopNs == {0, MaxTopN}

GraphDates == {d \in OldestDates : \/ \A e \in OldestDates : d <= e
                                   \/ \A e \in OldestDates : d >= e}

\* The arguments of generate_graph the requests carry, as <<selected_scenario,
\* top_n_scores, oldest_date, x_axis_radiogroup>>.  What the callback does
\* with no top-N value is the same for every x_axis_radiogroup (line 128), and
\* with an x_axis_radiogroup that is neither of the two values the same for
\* every date (line 187): each is taken once.
GraphArgs ==
    {a \in Scenarios \X GraphTopNs \X GraphDates \X XAxes :
        \/ a[4] = "score_vs_sensitivity"
        \/ /\ a[2] # 0
           /\ \/ a[4] = "score_vs_time"
              \/ \A e \in GraphDates : a[3] <= e}

\* The requests of generate_graph, as <<do_update>> \o its other arguments.
\* Without do_update the callback leaves the queue alone whatever the other
\* arguments are (line 210): it is taken once.
GraphRequests ==
    {<<TRUE>> \o a : a \in GraphArgs}
        \cup {<<FALSE, s, MaxTopN, d, "score_vs_sensitivity">> :
                 s \in {"A"}, d \in {e \in GraphDates : \A f \in GraphDates : e <= f}}

\* The bulk load, the watcher, and the consumers on the request threads.
NextServe ==
    \/ BulkNext
    \/ StartServing
    \/ LoadExtract
    \/ Load168
    \/ Load169
    \/ Load175
    \/ Load176
    \/ Load179
    \/ \E event \in ServeEvents : OnCreated(event)
    \/ WExtract
    \/ WNewCase
    \/ WRank
    \/ WNotify
    \/ FileChanges
    \/ \E s \in Scenarios : CheckForNewData(s)
    \/ \E c \in Callbacks, r \in GraphRequests :
          GenerateGraph(c, r[1], r[2], r[3], r[4], r[5])
    \/ \E c \in Callbacks : GReceive(c)

SpecServe == InitServe /\ [][NextServe]_vars

\* The bulk load of a small statistics directory, then the watcher on every
\* event.
NextWatch ==
    \/ BulkNext
    \/ StartServing
    \/ LoadExtract
    \/ Load168
    \/ Load169
    \/ Load175
    \/ Load176
    \/ Load179
    \/ \E event \in Events : OnCreated(event)
    \/ WExtract
    \/ WNewCase
    \/ WRank
    \/ WNotify
    \/ FileChanges

SpecWatch == InitServe /\ [][NextWatch]_vars

\* The bulk load, the watcher, and the page that reads the index on the
\* request threads.
NextRead ==
    \/ BulkNext
    \/ StartServing
    \/ LoadExtract
    \/ Load168
    \/ Load169
    \/ Load175
    \/ Load176
    \/ Load179
    \/ \E event \in ServeEvents : OnCreated(event)
    \/ WExtract
    \/ WNewCase
    \/ WRank
    \/ WNotify
    \/ FileChanges
    \/ \E s \in Scenarios : SelectScenario(s)
    \/ GetScenarioNumRuns
    \/ GraphReadsIndex

SpecRead == InitServe /\ [][NextRead]_vars

(***************************************************************************)
(* The page polling: the interval fires check_for_new_data again and       *)
(* again, and generate_graph is called by the page with the data of        *)
(* "do_update" as its first argument: whenever check_for_new_data has      *)
(* given the store a value, and whenever the user changes an input.  The   *)
(* program's own steps, the polls, the page's calls of generate_graph and  *)
(* the receive of a callback that waits are fair; the file events, the     *)
(* rewrites of a file and the requests of other clients are not.           *)
(***************************************************************************)
\* bool(do_update) at line 210.
Truthy(data) == data = "True"

GenerateGraphTriggered(c, selected_scenario, top_n_scores, oldest_date, x_axis_radiogroup) ==
    GenerateGraph(c, Truthy(do_update_data), selected_scenario, top_n_scores,
                  oldest_date, x_axis_radiogroup)

NextPoll ==
    \/ BulkNext
    \/ StartServing
    \/ LoadExtract
    \/ Load168
    \/ Load169
    \/ Load175
    \/ Load176
    \/ Load179
    \/ \E event \in ServeEvents : OnCreated(event)
    \/ WExtract
    \/ WNewCase
    \/ WRank
    \/ WNotify
    \/ FileChanges
    \/ \E s \in Scenarios : CheckForNewData(s)
    \/ \E c \in Callbacks, a \in GraphArgs :
          GenerateGraphTriggered(c, a[1], a[2], a[3], a[4])
    \/ \E c \in Callbacks, r \in GraphRequests :
          GenerateGraph(c, r[1], r[2], r[3], r[4], r[5])
    \/ \E c \in Callbacks : GReceive(c)

\* The threads of the program run: main and the handler of the watcher take
\* their next step (the parse of a file, always possible where it is due, is
\* not put off for ever), the interval goes on firing, the page goes on
\* calling generate_graph, and a callback whose message is there receives it.
FairPolling ==
    /\ WF_vars(BulkNext)
    /\ WF_vars(StartServing)
    /\ []<>(l_pc # "extract")
    /\ WF_vars(Load168)
    /\ WF_vars(Load169)
    /\ WF_vars(Load175)
    /\ WF_vars(Load176)
    /\ WF_vars(Load179)
    /\ []<>(w_pc # "sleep")
    /\ WF_vars(WNewCase)
    /\ WF_vars(WRank)
    /\ WF_vars(WNotify)
    /\ WF_vars(\E s \in Scenarios : CheckForNewData(s))
    /\ WF_vars(\E c \in Callbacks, a \in GraphArgs :
                  GenerateGraphTriggered(c, a[1], a[2], a[3], a[4]))
    /\ \A c \in Callbacks : WF_vars(GReceive(c))

SpecPoll == InitServe /\ [][NextPoll]_vars /\ FairPolling

(***************************************************************************)
(* The query operations of data_service, called in either module object   *)
(* once the bulk load is over: in the one whose index the bulk load has    *)
(* built, and in the one the pages import.  q_result records the call and  *)
(* what it returned: st is "ok" or the exception raised, val a one-element *)
(* tuple of the value.                                                     *)
(***************************************************************************)
QResult(op, m, scenario_name, top_n_scores, oldest_date, st, val) ==
    [op |-> op, module |-> m, scenario_name |-> scenario_name,
     top_n_scores |-> top_n_scores, oldest_date |-> oldest_date, st |-> st,
     val |-> val]

\* The call of a query operation leaves all but q_result as it is.
QueryFrame ==
    UNCHANGED <<message_queue, phase, csv_files, bulk_i, l_pc, l_run_data,
                w_vars, seen, g_pc, delivered, c_result, do_update_data, p_file, p_result,
                u_dir, u_result>>

\* Lines 35-37.
Call_is_scenario_in_database(m, scenario_name) ==
    /\ phase = "serving"
    /\ q_result' = QResult("is_scenario_in_database", m, scenario_name, 0, 0, "ok",
                           <<is_scenario_in_database(m, scenario_name)>>)
    /\ UNCHANGED kovaaks_database
    /\ QueryFrame

\* Lines 40-42: kovaaks_database[scenario_name] raises KeyError for a name that
\* is no key of the dict.
Call_get_scenario_stats(m, scenario_name) ==
    /\ phase = "serving"
    /\ q_result' =
          IF is_scenario_in_database(m, scenario_name)
          THEN QResult("get_scenario_stats", m, scenario_name, 0, 0, "ok",
                       <<get_scenario_stats(m, scenario_name)>>)
          ELSE QResult("get_scenario_stats", m, scenario_name, 0, 0, "KeyError", <<>>)
    /\ UNCHANGED kovaaks_database
    /\ QueryFrame

\* The runs returned are taken out of their buckets (pop() in place of the
\* scan of reversed(runs_data)).
Call_get_sensitivities_vs_runs_filtered_Draining(m, scenario_name, top_n_scores, oldest_date) ==
    /\ phase = "serving"
    /\ LET r == get_sensitivities_vs_runs_filtered(m, scenario_name, top_n_scores,
                                                   oldest_date)
       IN  /\ q_result' =
                 QResult("get_sensitivities_vs_runs_filtered", m, scenario_name,
                         top_n_scores, oldest_date,
                         IF r.st = "ok" THEN "ok" ELSE r.exc,
                         IF r.st = "ok" THEN <<r.val>> ELSE <<>>)
           /\ kovaaks_database' =
                 IF r.st # "ok" THEN kovaaks_database
                 ELSE [kovaaks_database EXCEPT
                          ![m][scenario_name].sensitivities_vs_runs.map =
                             [k \in DOMAIN @ |->
                                 IF k \in DOMAIN r.val.map
                                 THEN SelectSeq(@[k], LAMBDA x :
                                         \A j \in 1..Len(r.val.map[k]) :
                                            r.val.map[k][j] # x)
                                 ELSE @[k]]]
    /\ QueryFrame

\* Lines 50-78.
Call_get_sensitivities_vs_runs_filtered(m, scenario_name, top_n_scores, oldest_date) ==
    /\ phase = "serving"
    /\ LET r == get_sensitivities_vs_runs_filtered(m, scenario_name, top_n_scores,
                                                   oldest_date)
       IN  q_result' =
              QResult("get_sensitivities_vs_runs_filtered", m, scenario_name,
                      top_n_scores, oldest_date,
                      IF r.st = "ok" THEN "ok" ELSE r.exc,
                      IF r.st = "ok" THEN <<r.val>> ELSE <<>>)
    /\ UNCHANGED kovaaks_database
    /\ QueryFrame

\* The bulk load of every sequence of at most MaxBulk files, then the query
\* operations.
NextQuery ==
    \/ BulkNext
    \/ StartServing
    \/ LoadExtract
    \/ Load168
    \/ Load169
    \/ Load175
    \/ Load176
    \/ Load179
    \/ \E m \in Modules, s \in Scenarios : Call_is_scenario_in_database(m, s)
    \/ \E m \in Modules, s \in Scenarios : Call_get_scenario_stats(m, s)
    \/ \E m \in Modules, s \in Scenarios, n \in TopNs, d \in OldestDates :
          Call_get_sensitivities_vs_runs_filtered(m, s, n, d)

\* The files of the statistics directories of the runs with queries: runs of
\* one bucket on three dates, of a second bucket and of a second scenario, a
\* run whose score is nan, and a file that does not parse.
QueryFiles ==
    { BaseFile,
      WellFormed("A", "cm", I(5), I(80), 100, 50, 1),
      WellFormed("A", "cm", D(5004), I(90), 100, 50, 3),
      WellFormed("A", "cm", D(24996), I(85), 100, 50, 2),
      WellFormed("B", "cm", I(5), I(70), 100, 50, 1),
      NaNScoreFile, MissingFieldFile }

InitQuery ==
    /\ InitCommon
    /\ csv_files \in UNION { [1..n -> QueryFiles] : n \in 0..MaxBulk }
    /\ p_file = NoFile
    /\ u_dir = <<>>

SpecQuery == InitQuery /\ [][NextQuery]_vars

(***************************************************************************)
(* extract_data_from_file applied on its own to a file.  The files: every  *)
(* choice of a name with or without a timestamp, of a file that opens or   *)
(* not, of each labelled line (absent, well formed, or malformed) and of   *)
(* the sub-table (absent, a header alone, a row short or non-numeric, a    *)
(* row of any shots and hits among Counts, a second row) and of an empty   *)
(* line after the last one.                                                *)
(***************************************************************************)
MaxCount == 2

\* The shots and hits of a row: the small integers, and the 100 and 50 of the
\* test of the parser.
Counts == (-MaxCount..MaxCount) \cup {50, 100}

\* The choices of a part of a file, each the lines it contributes.
ScoreLines ==
    { <<>>,
      << <<S("Score:"), D(123450)>> >>,
      << <<S("Score:x"), I(5)>> >>,
      << <<S("Score:"), I(95), S("x")>> >>,
      << <<S("Score:"), S("abc")>> >>,
      << <<S("Score:"), S("nan")>> >>,
      << <<S("Score:"), S("-Infinity")>> >>,
      << <<S("Score:")>> >> }

SensScaleLines == { <<>>, << <<S("Sens Scale:"), S("Overwatch")>> >> }

\* 2.346, the tie 2.675 (its double lies below it), -0.002, -0.0 and the
\* names of floats that are no finite number.
HorizSensLines ==
    { <<>>,
      << <<S("Horiz Sens:"), D(2346)>> >>,
      << <<S("Horiz Sens:"), D(2675)>> >>,
      << <<S("Horiz Sens:"), D(-2)>> >>,
      << <<S("Horiz Sens:"), D(NegativeZero)>> >>,
      << <<S("Horiz Sens:"), S("NaN")>> >>,
      << <<S("Horiz Sens:"), S("+inf")>> >> }

ScenarioLines == { <<>>, << <<S("Scenario:"), S("1w4ts")>> >> }

SubTables ==
    { <<>>,
      <<SUB_CSV_HEADER>>,
      <<SUB_CSV_HEADER, <<S("Rifle"), I(100)>> >>,
      <<SUB_CSV_HEADER, <<S("Rifle"), S("x"), I(50), I(0)>> >>,
      <<SUB_CSV_HEADER, <<S("Rifle"), I(100), I(50), I(0)>>,
                        <<S("Pistol"), I(2), I(2), I(0)>> >> }
    \cup { <<SUB_CSV_HEADER, <<S("Rifle"), I(shots), I(hits), I(0)>> >> :
              shots \in Counts, hits \in Counts }

\* readlines() yields no line after the last newline; a file that ends in an
\* empty line yields it as "".
LastLines == { <<>>, << <<S("")>> >> }

ParseFiles ==
    { [stamp |-> t, readable |-> r,
       lines |-> a \o b \o c \o d \o e \o z] :
          t \in {0, 1}, r \in BOOLEAN, a \in ScoreLines, b \in SensScaleLines,
          c \in HorizSensLines, d \in ScenarioLines, e \in SubTables,
          z \in LastLines }

InitParse ==
    /\ InitCommon
    /\ csv_files = <<>>
    /\ p_file \in ParseFiles
    /\ u_dir = <<>>

\* run = extract_data_from_file(str(file_path))
Parse ==
    /\ p_result = NoResult
    /\ p_result' = [op |-> "extract_data_from_file",
                    ret |-> extract_data_from_file(p_file)]
    /\ UNCHANGED <<kovaaks_database, message_queue, phase, csv_files, bulk_i,
                   l_pc, l_run_data, w_vars, seen, g_pc, delivered, c_result, do_update_data,
                   q_result, p_file, u_dir, u_result>>

NextParse == Parse

SpecParse == InitParse /\ [][NextParse]_vars

(***************************************************************************)
(* get_unique_scenarios(_dir).  A file name is the sequence of its         *)
(* characters; an entry of the directory is its name and whether it is a   *)
(* regular file.                                                           *)
(***************************************************************************)
MaxDir == 3

\* The code point of a character: the order in which Python compares strings.
\* "nbsp" stands for the no-break space U+00A0.
Ord(ch) ==
    CASE ch = "\t" -> 9 [] ch = " " -> 32 [] ch = "-" -> 45 [] ch = "." -> 46
      [] ch = "nbsp" -> 160
      [] ch = "A" -> 65 [] ch = "B" -> 66
      [] ch = "a" -> 97 [] ch = "c" -> 99 [] ch = "s" -> 115 [] ch = "t" -> 116
      [] ch = "v" -> 118 [] ch = "x" -> 120

\* a < b for two strings.
RECURSIVE StrLess(_, _, _)
StrLess(a, b, i) ==
    IF i > Len(b) THEN FALSE
    ELSE IF i > Len(a) THEN TRUE
    ELSE IF a[i] = b[i] THEN StrLess(a, b, i + 1)
    ELSE Ord(a[i]) < Ord(b[i])

\* file.endswith(".csv")
EndsWithCsv(file) ==
    /\ Len(file) >= 4
    /\ SubSeq(file, Len(file) - 3, Len(file)) = <<".", "c", "s", "v">>

\* file.rsplit("-")[0] in place of file.split("-")[0] would keep all up to
\* the last "-"; this is the part before the last "-".
SplitFirst_AtLastHyphen(file, i) ==
    LET hyphens == {j \in 1..Len(file) : file[j] = "-"}
    IN  IF hyphens = {} THEN file
        ELSE SubSeq(file, 1, (CHOOSE j \in hyphens : \A k \in hyphens : k <= j) - 1)

\* file.split("-")[0]: the characters before the first "-" found from
\* position i on, the whole of the name when there is none.
RECURSIVE SplitFirst(_, _)
SplitFirst(file, i) ==
    IF i > Len(file) THEN file
    ELSE IF file[i] = "-" THEN SubSeq(file, 1, i - 1)
    ELSE SplitFirst(file, i + 1)

\* ch.isspace(): the code points of the whitespace characters of Unicode.
IsSpace(ch) ==
    Ord(ch) \in (9..13) \cup (28..32) \cup {133, 160, 5760} \cup (8192..8202)
                 \cup {8232, 8233, 8239, 8287, 12288}

\* str.strip(): the leading and the trailing whitespace is removed.
RECURSIVE StrStrip(_)
StrStrip(str) ==
    IF str = <<>> THEN str
    ELSE IF IsSpace(Head(str)) THEN StrStrip(Tail(str))
    ELSE IF IsSpace(str[Len(str)]) THEN StrStrip(SubSeq(str, 1, Len(str) - 1))
    ELSE str

\* sorted(list(a set of strings))
RECURSIVE Sorted(_)
Sorted(strs) ==
    IF strs = {} THEN <<>>
    ELSE LET least == CHOOSE x \in strs : \A y \in strs : x = y \/ StrLess(x, y, 1)
         IN  <<least>> \o Sorted(strs \ {least})

\* Lines 190-198.
get_unique_scenarios(_dir) ==
    LET files == {_dir[i].name : i \in {j \in 1..Len(_dir) : _dir[j].is_file}}
        csv_files_ == {file \in files : EndsWithCsv(file)}
    IN  Sorted({StrStrip(SplitFirst(file, 1)) : file \in csv_files_})

\* The entries a statistics directory may hold: result files of scenarios A,
\* B, a and "A B" (one with a "-" in what follows the scenario, one with blanks
\* around it, one without blanks, one with a tab and one with a no-break space
\* before the "-"), a name without "-", a file of another extension and a
\* subdirectory whose name ends in .csv.
DirEntries ==
    { [name |-> <<"A", " ", "-", " ", "x", ".", "c", "s", "v">>, is_file |-> TRUE],
      [name |-> <<"A", " ", "-", " ", "a", "-", "x", ".", "c", "s", "v">>, is_file |-> TRUE],
      [name |-> <<" ", "A", " ", " ", "-", "x", ".", "c", "s", "v">>, is_file |-> TRUE],
      [name |-> <<"B", "-", "x", ".", "c", "s", "v">>, is_file |-> TRUE],
      [name |-> <<"A", "\t", "-", "x", ".", "c", "s", "v">>, is_file |-> TRUE],
      [name |-> <<"B", "nbsp", "-", "x", ".", "c", "s", "v">>, is_file |-> TRUE],
      [name |-> <<"a", " ", "-", " ", "x", ".", "c", "s", "v">>, is_file |-> TRUE],
      [name |-> <<"A", " ", "B", " ", "-", " ", "x", ".", "c", "s", "v">>, is_file |-> TRUE],
      [name |-> <<"x", ".", "c", "s", "v">>, is_file |-> TRUE],
      [name |-> <<"B", " ", "-", " ", "x", ".", "t", "x", "t">>, is_file |-> TRUE],
      [name |-> <<"B", " ", "-", " ", "a", ".", "c", "s", "v">>, is_file |-> FALSE] }

\* The listings os.listdir may give: entries of distinct names, in any order.
Dirs ==
    UNION { {d \in [1..n -> DirEntries] :
                \A i \in 1..n, j \in 1..n : i # j => d[i].name # d[j].name} :
            n \in 0..MaxDir }

InitList ==
    /\ InitCommon
    /\ csv_files = <<>>
    /\ p_file = NoFile
    /\ u_dir \in Dirs

\* scenarios = get_unique_scenarios(config.stats_dir)
ListScenarios ==
    /\ u_result = NoResult
    /\ u_result' = [op |-> "get_unique_scenarios", ret |-> get_unique_scenarios(u_dir)]
    /\ UNCHANGED <<kovaaks_database, message_queue, phase, csv_files, bulk_i,
                   l_pc, l_run_data, w_vars, seen, g_pc, delivered, c_result, do_update_data,
                   q_result, p_file, p_result, u_dir>>

NextList == ListScenarios

SpecList == InitList /\ [][NextList]_vars

(***************************************************************************)
(* Properties.                                                             *)
(***************************************************************************)
Last(seq) == seq[Len(seq)]

\* The number of runs held, in the index db of a module, under the scenario
\* and sensitivity key of run_data.
BucketSizeIn(db, run_data) ==
    IF run_data.scenario \notin DOMAIN db THEN 0
    ELSE IF <<run_data.horizontal_sens, run_data.sens_scale>> \notin
              DOMAIN db[run_data.scenario].sensitivities_vs_runs.map
         THEN 0
         ELSE Len(db[run_data.scenario].sensitivities_vs_runs.map[
                      <<run_data.horizontal_sens, run_data.sens_scale>>])

\* The number of runs of the bucket of run_data that score strictly more.
StrictlyHigher(db, run_data) ==
    LET bucket == db[run_data.scenario].sensitivities_vs_runs.map[
                      <<run_data.horizontal_sens, run_data.sens_scale>>]
    IN  Cardinality({i \in 1..Len(bucket) :
                        /\ ~FloatLeq(bucket[i].score, run_data.score)
                        /\ bucket[i].score # NaN
                        /\ run_data.score # NaN})

\* C1: once on_created has parsed the file of a .csv event, it ends its case
\* analysis (new scenario, new sensitivity, existing bucket) by putting exactly
\* one message on the queue and going on to load the file, and when the load of
\* the unchanged file returns, the bucket of the record has grown by one.
C1_ParsedEventEnqueuesOnceAndIngestsOnce ==
    [][ /\ (w_pc \in {"parsed", "notify"} /\ w_pc' \notin {"parsed", "notify"})
            => (w_pc' = "load" /\ Len(message_queue') = Len(message_queue) + 1)
        /\ (w_pc = "load" /\ w_pc' = "idle" /\ ~w_changed)
            => BucketSizeIn(kovaaks_database'[PageModule], w_run_data)
                 = BucketSizeIn(kovaaks_database[PageModule], w_run_data) + 1 ]_vars

\* C2: no exception leaves on_created, whatever the event.
C2_NoExceptionLeavesHandler == w_exc = "none"

\* C3: in the existing-bucket case the handler enqueues a notification whose
\* nth_score is 1 plus the number of runs of the bucket that score strictly more.
C3_ExistingBucketNotificationCarriesRank ==
    [][ (w_pc = "notify" /\ w_pc' # "notify")
            => /\ Len(message_queue') = Len(message_queue) + 1
               /\ Last(message_queue').nth_score
                    = 1 + StrictlyHigher(kovaaks_database[PageModule], w_run_data) ]_vars

\* C4: a record of a scenario not in the index, or of a sensitivity key not in
\* its scenario, makes the handler enqueue one notification with nth_score = 1
\* that carries the record's scenario, score and sensitivity key.
C4_NewScenarioOrSensitivityRankIsOne ==
    [][ (w_pc = "parsed" /\ w_pc' # "parsed" /\ IsNewCase(w_run_data))
            => /\ Len(message_queue') = Len(message_queue) + 1
               /\ SubSeq(message_queue', 1, Len(message_queue)) = message_queue
               /\ Last(message_queue') =
                     [nth_score |-> 1,
                      scenario_name |-> w_run_data.scenario,
                      score |-> w_run_data.score,
                      sensitivity |->
                          <<w_run_data.horizontal_sens, w_run_data.sens_scale>>] ]_vars

\* C4 witness: a new sensitivity of a known scenario was notified with rank 1.
C4_Witness ==
    /\ w_pc = "load"
    /\ l_pc = "extract"
    /\ ~w_changed
    /\ is_scenario_in_database(PageModule, w_run_data.scenario)
    /\ BucketSizeIn(kovaaks_database[PageModule], w_run_data) = 0
    /\ message_queue # <<>>
    /\ Last(message_queue).nth_score = 1
    /\ Last(message_queue).scenario_name = w_run_data.scenario

\* C5: within one invocation of the handler the rank is computed on the index
\* as it is before the record is inserted; once the rank is computed the
\* handler enqueues the notification and enters its final call of
\* load_csv_file_into_database, in that order; the index changes only inside
\* that call, which ingests the record when the file is unchanged, and nothing
\* of the handler follows the call.
C5_RankThenNotificationThenIngest ==
    [][ /\ (phase = "serving" /\ kovaaks_database' # kovaaks_database)
            => w_pc = "load"
        /\ (w_pc # "notify" /\ w_pc' = "notify")
            => /\ w_nth_score' = 1 + StrictlyHigher(kovaaks_database[PageModule], w_run_data)
               /\ kovaaks_database' = kovaaks_database
        /\ (w_pc = "notify" /\ w_pc' # "notify")
            => /\ w_pc' = "load"
               /\ Len(message_queue') = Len(message_queue) + 1
               /\ Last(message_queue').score = w_run_data.score
               /\ kovaaks_database' = kovaaks_database
        /\ (w_pc # "load" /\ w_pc' = "load")
            => /\ Len(message_queue') = Len(message_queue) + 1
               /\ Last(message_queue').score = w_run_data.score
               /\ kovaaks_database' = kovaaks_database
        /\ (w_pc = "load" /\ w_pc' # "load")
            => /\ w_pc' = "idle"
               /\ ~w_changed =>
                     BucketSizeIn(kovaaks_database'[PageModule], w_run_data)
                       = BucketSizeIn(kovaaks_database[PageModule], w_run_data) + 1 ]_vars

\* The files of the bulk load, among the first n, that parse to a run of scenario s.
ParsedOf(s, n) ==
    {i \in 1..n : /\ extract_data_from_file(csv_files[i]).st = "ok"
                  /\ extract_data_from_file(csv_files[i]).rd.scenario = s}

StampOf(i) == csv_files[i].stamp

\* C6: when the bulk load has gone through the first N files, a scenario of
\* which none parsed is unknown, and a scenario of which n parsed has
\* number_of_runs = n and date_last_played = the greatest of their timestamps,
\* in whatever order the files came.
C6_RunCountAndLastPlayed ==
    (phase \in {"init", "crashed"} /\ l_pc = "idle")
        => \A s \in Scenarios :
              LET done == ParsedOf(s, bulk_i - 1)
              IN  IF done = {} THEN ~is_scenario_in_database(AppModule, s)
                  ELSE /\ is_scenario_in_database(AppModule, s)
                       /\ get_scenario_stats(AppModule, s).number_of_runs = Cardinality(done)
                       /\ \E i \in done :
                             /\ get_scenario_stats(AppModule, s).date_last_played = StampOf(i)
                             /\ \A j \in done : StampOf(j) <= StampOf(i)

\* C6 witness: three runs of one scenario are loaded, the latest not last.
C6_Witness ==
    /\ phase = "init"
    /\ l_pc = "idle"
    /\ bulk_i = 4
    /\ is_scenario_in_database(AppModule, "A")
    /\ get_scenario_stats(AppModule, "A").number_of_runs = 3
    /\ StampOf(3) < get_scenario_stats(AppModule, "A").date_last_played

\* Every bucket of the index of every module is in ascending order of score.
BucketsSorted ==
    \A m \in Modules : \A s \in DOMAIN kovaaks_database[m] :
       LET sd == kovaaks_database[m][s].sensitivities_vs_runs
       IN  \A k \in DOMAIN sd.map :
              \A i \in 1..(Len(sd.map[k]) - 1) :
                 FloatLeq(sd.map[k][i].score, sd.map[k][i + 1].score)

\* C7: in every state, every sensitivity bucket of every scenario is sorted in
\* ascending order of score.
C7_BucketsAscendingByScore == BucketsSorted

\* C8: a parse that fails (None, or an exception) ends the handler with the
\* index and the queue as they were, and a parse that fails inside
\* load_csv_file_into_database ends the load with both as they were.
C8_FailedParseChangesNothing ==
    [][ /\ (w_pc = "sleep" /\ w_pc' # "sleep"
              /\ extract_data_from_file(w_file).st # "ok")
            => /\ w_pc' = "idle"
               /\ kovaaks_database' = kovaaks_database
               /\ message_queue' = message_queue
        /\ (l_pc = "extract" /\ l_pc' # "extract"
              /\ extract_data_from_file(CurFile).st # "ok")
            => /\ l_pc' = "idle"
               /\ kovaaks_database' = kovaaks_database
               /\ message_queue' = message_queue ]_vars

\* C8 witness: the handler has ingested the run of a first event; the file
\* of the second had no "Scenario:" line: the handler has returned, the queue
\* holds the one notification and the index the one run it held.
C8_Witness ==
    /\ phase = "serving"
    /\ w_pc = "idle"
    /\ events = 2
    /\ w_file = MissingFieldFile
    /\ w_exc = "none"
    /\ Len(message_queue) = 1
    /\ DOMAIN kovaaks_database[PageModule] = {"A"}
    /\ TotalRecords(kovaaks_database[PageModule]["A"]) = 1

\* The number of runs the index of module m holds for scenario s.
RecordsOf(m, s) ==
    IF is_scenario_in_database(m, s) THEN TotalRecords(kovaaks_database[m][s]) ELSE 0

\* C9: when the bulk load is over, however it ended, every file of the batch
\* that parses has been ingested.
C9_BulkLoadIngestsEveryParseableFile ==
    (/\ phase \in {"init", "crashed"}
     /\ l_pc = "idle"
     /\ (phase = "crashed" \/ bulk_i > Len(csv_files)))
        => \A s \in Scenarios :
              RecordsOf(AppModule, s) = Cardinality(ParsedOf(s, Len(csv_files)))

\* C10: a reader never comes upon an inconsistent entry.  No read of the
\* buckets by generate_graph raises; at every point where a request can be
\* served, every key of a scenario has its bucket and the number_of_runs of the
\* scenario is the number of the runs in its buckets; and every bucket is
\* sorted.
C10_ReaderSeesConsistentEntry ==
    /\ seen.read \in {"none", "ok"}
    /\ phase = "serving"
          => \A s \in DOMAIN kovaaks_database[PageModule] :
                /\ KeysHaveValues(get_sensitivities_vs_runs(PageModule, s))
                /\ get_scenario_stats(PageModule, s).number_of_runs
                      = TotalRecords(kovaaks_database[PageModule][s])
    /\ BucketsSorted

\* C11: ingestion is serialized.  While the bulk load runs, the watcher handles
\* no event and the server answers no request; main goes on to start the
\* watcher and the server only when the bulk load is over and no load is under
\* way; an event is taken up only when the handler of the one before is over
\* and no load is under way; and a load under way is the bulk load's or the
\* one handler's, never both.
C11_IngestionIsSerialized ==
    [][ /\ (phase' = "init") => (w_pc' = "idle" /\ events' = 0 /\ seen' = NoSeen)
        /\ (phase = "init" /\ phase' = "serving")
            => (l_pc = "idle" /\ bulk_i > Len(csv_files))
        /\ (events' # events) => (w_pc = "idle" /\ l_pc = "idle")
        /\ (l_pc' # "idle")
            => IF phase' = "init" THEN w_pc' = "idle"
               ELSE (phase' = "serving" /\ w_pc' = "load") ]_vars

\* C11 witness: the bulk load has ingested a run, the handler has ingested the
\* run of a first event, and the ingest of the run of a second event is under
\* way.
C11_Witness ==
    /\ phase = "serving"
    /\ events = 2
    /\ w_pc = "load"
    /\ l_pc = "L179"
    /\ is_scenario_in_database(AppModule, "A")
    /\ is_scenario_in_database(PageModule, "A")
    /\ get_scenario_stats(PageModule, "A").number_of_runs = 2

\* C12: the queue delivers at most once and in FIFO order.  A step that changes
\* the queue or the messages received either puts one message behind those
\* queued and delivers nothing, or hands the consumer the oldest message queued
\* and takes exactly that one off the queue: a message is received once, in the
\* order of the puts, and is never received again.
C12_QueueDeliversOnceInFifoOrder ==
    [][ (message_queue' # message_queue \/ delivered' # delivered)
            => \/ /\ delivered' = delivered
                  /\ Len(message_queue') = Len(message_queue) + 1
                  /\ SubSeq(message_queue', 1, Len(message_queue)) = message_queue
               \/ /\ message_queue # <<>>
                  /\ delivered' = Append(delivered, Head(message_queue))
                  /\ message_queue' = Tail(message_queue) ]_vars

\* C12 witness: the watcher has put the message of a run of scenario A and then
\* that of a run of scenario B, and the consumers have received both, A's
\* first; the queue is empty again.
C12_Witness ==
    /\ Len(delivered) = 2
    /\ delivered[1] # delivered[2]
    /\ message_queue = <<>>
    /\ w_pc = "idle"
    /\ is_scenario_in_database(PageModule, delivered[1].scenario_name)
    /\ delivered[1].scenario_name = "A"
    /\ delivered[2].scenario_name = "B"
    /\ \A c \in Callbacks : g_pc[c] = "idle"

\* C13: the dequeue of generate_graph always returns: no callback is ever
\* waiting in message_queue.get() on an empty queue while the watcher is idle
\* (nothing is on its way into the queue).
C13_DequeueAlwaysReturns ==
    \A c \in Callbacks : ~(g_pc[c] = "get" /\ message_queue = <<>> /\ w_pc = "idle")

\* The call of get_sensitivities_vs_runs_filtered that q_result records returned.
FilteredReturned ==
    /\ q_result.op = "get_sensitivities_vs_runs_filtered"
    /\ q_result.st = "ok"

\* The positions of the runs of a bucket that are not older than oldest_date.
Qualifying(bucket, oldest_date) ==
    {i \in 1..Len(bucket) : bucket[i].datetime_object >= oldest_date}

Min(a, b) == IF a <= b THEN a ELSE b

\* rs lists, from the highest score downward, exactly the min(top_n, q)
\* highest-scoring of the q qualifying runs of the bucket.
IsTopOf(rs, bucket, top_n, oldest_date) ==
    LET Q == Qualifying(bucket, oldest_date)
    IN  /\ Len(rs) = Min(top_n, Cardinality(Q))
        /\ \A j \in 1..(Len(rs) - 1) : FloatLeq(rs[j + 1].score, rs[j].score)
        /\ \E f \in [1..Len(rs) -> Q] :
              /\ \A a, b \in 1..Len(rs) : a # b => f[a] # f[b]
              /\ \A j \in 1..Len(rs) : bucket[f[j]] = rs[j]
              /\ \A i \in Q \ {f[j] : j \in 1..Len(rs)} :
                    \A j \in 1..Len(rs) : FloatLeq(bucket[i].score, rs[j].score)

\* C14: for a known scenario, top_n >= 1 and any oldest_date,
\* get_sensitivities_vs_runs_filtered returns, and what it returns holds for
\* each bucket of the scenario exactly the min(top_n, q) highest-scoring of
\* the q runs of the bucket dated oldest_date or later, highest first (a bucket
\* with q = 0 has no list); an older run is left out whatever its score.
C14_FilteredIsTopNOfQualifying ==
    (q_result.op = "get_sensitivities_vs_runs_filtered"
       /\ q_result.top_n_scores >= 1
       /\ is_scenario_in_database(q_result.module, q_result.scenario_name))
        => /\ q_result.st = "ok"
           /\ LET sd == get_sensitivities_vs_runs(q_result.module,
                                                  q_result.scenario_name)
                  res == q_result.val[1]
              IN  /\ DOMAIN res.map \subseteq DOMAIN sd.map
                  /\ \A k \in DOMAIN sd.map :
                        IF k \in DOMAIN res.map
                        THEN IsTopOf(res.map[k], sd.map[k],
                                     q_result.top_n_scores, q_result.oldest_date)
                        ELSE Qualifying(sd.map[k], q_result.oldest_date) = {}

\* C15: get_sensitivities_vs_runs_filtered never returns a key with an empty
\* list: the keys it returns are those of the buckets with a qualifying run,
\* each with a non-empty list, and for a known scenario whose every run is
\* older than oldest_date it returns the empty mapping and raises nothing.
C15_NoEmptyListReturned ==
    /\ FilteredReturned
        => LET sd == get_sensitivities_vs_runs(q_result.module, q_result.scenario_name)
               res == q_result.val[1]
           IN  /\ \A k \in DOMAIN res.map : res.map[k] # <<>>
               /\ {res.keys[i] : i \in 1..Len(res.keys)} = DOMAIN res.map
               /\ DOMAIN res.map =
                     {k \in DOMAIN sd.map :
                         Qualifying(sd.map[k], q_result.oldest_date) # {}}
    /\ (q_result.op = "get_sensitivities_vs_runs_filtered"
          /\ is_scenario_in_database(q_result.module, q_result.scenario_name))
        => q_result.st = "ok"

\* C15 witness: scenario A has runs in two buckets, all of them older than
\* oldest_date, and the call returned the empty mapping.
C15_Witness ==
    /\ FilteredReturned
    /\ q_result.module = AppModule
    /\ q_result.scenario_name = "A"
    /\ Len(get_sensitivities_vs_runs(AppModule, "A").keys) = 2
    /\ \A k \in DOMAIN get_sensitivities_vs_runs(AppModule, "A").map :
          /\ get_sensitivities_vs_runs(AppModule, "A").map[k] # <<>>
          /\ Qualifying(get_sensitivities_vs_runs(AppModule, "A").map[k],
                        q_result.oldest_date) = {}
    /\ q_result.val[1] = EmptySortedDict

\* C16: the query operations are read-only: a step in which
\* is_scenario_in_database, get_scenario_stats or
\* get_sensitivities_vs_runs_filtered is called, for a known or an unknown
\* scenario name, leaves kovaaks_database (scenarios, stats, bucket keys, bucket
\* contents and their order) as it was.
C16_QueriesLeaveIndexUnchanged ==
    [][ (q_result' # q_result \/ phase = "serving")
            => kovaaks_database' = kovaaks_database ]_vars

\* C16 witness: the filtered view returned two of the three runs of a bucket,
\* and the bucket still holds the three.
C16_Witness ==
    /\ FilteredReturned
    /\ q_result.module = AppModule
    /\ q_result.scenario_name = "A"
    /\ <<5000, "cm">> \in DOMAIN q_result.val[1].map
    /\ Len(q_result.val[1].map[<<5000, "cm">>]) = 2
    /\ Len(get_sensitivities_vs_runs(AppModule, "A").map[<<5000, "cm">>]) = 3
    /\ get_scenario_stats(AppModule, "A").number_of_runs = 3

\* C17: in every state the sensitivity keys of every scenario are, in the order
\* of iteration, in ascending order of their leading numeric value.
C17_KeysAscendingByNumericValue ==
    \A m \in Modules : \A s \in DOMAIN kovaaks_database[m] :
       LET keys == get_sensitivities_vs_runs(m, s).keys
       IN  /\ \A i \in 1..(Len(keys) - 1) : FloatLeq(keys[i][1], keys[i + 1][1])
           /\ \A i \in 1..Len(keys), j \in 1..Len(keys) : keys[i] = keys[j] => i = j
           /\ DOMAIN get_sensitivities_vs_runs(m, s).map
                 \subseteq {keys[i] : i \in 1..Len(keys)}
           /\ l_pc # "L176"
                 => {keys[i] : i \in 1..Len(keys)}
                       = DOMAIN get_sensitivities_vs_runs(m, s).map

\* The parser was applied to p_file.
Parsed == p_result.op = "extract_data_from_file"

\* The positions of the lines of a file that start with a label.
LinesOf(file, label) ==
    {i \in 1..Len(file.lines) : StartsWith(Text(file.lines[i][1]), label)}

\* The position of the sub-table header (0: none).
HeaderOf(file) ==
    IF \E i \in 1..Len(file.lines) : file.lines[i] = SUB_CSV_HEADER
    THEN CHOOSE i \in 1..Len(file.lines) : file.lines[i] = SUB_CSV_HEADER
    ELSE 0

\* The token is one float() converts: a literal of a number, or one of the
\* names of the floats that are no finite number.
IsFloatToken(tok) ==
    \/ tok[1] \in {"i", "d"}
    \/ /\ tok[1] = "s"
       /\ \E sign \in {"", "+", "-"}, name \in {"nan", "inf", "infinity"} :
             /\ Len(tok[2]) = Len(sign) + Len(name)
             /\ SubSeq(tok[2], 1, Len(sign)) = sign
             /\ LowerStr(SubSeq(tok[2], Len(sign) + 1, Len(tok[2]))) = name

\* Every value can be extracted from the file: the name ends in a timestamp,
\* the file opens, each label has one line with a second token (a float for
\* Score: and Horiz Sens:), and the line after the sub-table header has integer
\* shots and hits, shots not 0.
Extractable(file) ==
    /\ file.stamp # 0
    /\ file.readable
    /\ \A label \in {"Score:", "Sens Scale:", "Horiz Sens:", "Scenario:"} :
          /\ Cardinality(LinesOf(file, label)) = 1
          /\ \A i \in LinesOf(file, label) : Len(file.lines[i]) >= 2
    /\ \A label \in {"Score:", "Horiz Sens:"} :
          \A i \in LinesOf(file, label) : IsFloatToken(file.lines[i][2])
    /\ HeaderOf(file) # 0
    /\ HeaderOf(file) < Len(file.lines)
    /\ LET row == file.lines[HeaderOf(file) + 1]
       IN  /\ Len(row) >= 3
           /\ row[2][1] = "i"
           /\ row[3][1] = "i"
           /\ row[2][3] # 0

\* C18: extract_data_from_file is all-or-nothing: applied to a file from which
\* every value can be extracted it returns a RunData, and applied to any other
\* file (a value absent, a conversion that fails) it returns None.
C18_ParserAllOrNothing ==
    Parsed => IF Extractable(p_file) THEN p_result.ret.st = "ok"
              ELSE p_result.ret.st = "none"

\* The second token of the one line of the file that starts with the label.
SecondToken(file, label) ==
    file.lines[CHOOSE i \in LinesOf(file, label) : TRUE][2]

\* The float a token stands for: a number in thousandths, or the float of
\* its name.
FloatOfToken(tok) ==
    CASE tok[1] = "i" -> tok[3] * 1000
      [] tok[1] = "d" -> tok[3]
      [] OTHER ->
            LET name == LowerStr(tok[2])
            IN  IF name \in {"nan", "+nan", "-nan"} THEN NaN
                ELSE IF SubSeq(name, 1, 1) = "-" THEN NegativeInfinity
                ELSE Infinity

\* C19: for a well-formed file the parser returns a RunData whose score is the
\* second token of the "Score:" line, whose sens_scale and scenario are the
\* second tokens of their lines, whose horizontal_sens is the second token of
\* the "Horiz Sens:" line rounded to hundredths, and whose accuracy is hits
\* divided by shots of the line that follows the sub-table header.
C19_WellFormedFileValues ==
    (Parsed /\ Extractable(p_file))
        => /\ p_result.ret.st = "ok"
           /\ LET rd == p_result.ret.rd
                  row == p_file.lines[HeaderOf(p_file) + 1]
                  hs == FloatOfToken(SecondToken(p_file, "Horiz Sens:"))
              IN  /\ rd.datetime_object = p_file.stamp
                  /\ rd.score = FloatOfToken(SecondToken(p_file, "Score:"))
                  /\ rd.sens_scale = SecondToken(p_file, "Sens Scale:")[2]
                  /\ rd.scenario = SecondToken(p_file, "Scenario:")[2]
                  /\ IF hs \in {NegativeZero, NaN, Infinity, NegativeInfinity}
                     THEN rd.horizontal_sens = hs
                     ELSE /\ rd.horizontal_sens \notin {NaN, Infinity, NegativeInfinity}
                          /\ FloatValue(rd.horizontal_sens) % 10 = 0
                          /\ 2 * (FloatValue(rd.horizontal_sens) - hs) <= 10
                          /\ 2 * (hs - FloatValue(rd.horizontal_sens)) <= 10
                  /\ rd.accuracy[2] > 0
                  /\ rd.accuracy[1] * row[2][3] = rd.accuracy[2] * row[3][3]

\* C19 witness: the file of the test (Score:,123.45; Horiz Sens: rounded to
\* 2.35; a row with Shots=100 and Hits=50) gave accuracy 1/2.
C19_Witness ==
    /\ Parsed
    /\ Extractable(p_file)
    /\ p_file.lines[HeaderOf(p_file) + 1] = <<S("Rifle"), I(100), I(50), I(0)>>
    /\ Len(p_file.lines) = 6
    /\ p_result.ret.st = "ok"
    /\ p_result.ret.rd.score = 123450
    /\ p_result.ret.rd.sens_scale = "Overwatch"
    /\ p_result.ret.rd.horizontal_sens = 2350
    /\ p_result.ret.rd.scenario = "1w4ts"
    /\ p_result.ret.rd.accuracy = <<1, 2>>

\* C20: every RunData the parser returns has an accuracy within [0, 1].
C20_AccuracyWithinUnitInterval ==
    (Parsed /\ p_result.ret.st = "ok")
        => /\ 0 <= p_result.ret.rd.accuracy[1]
           /\ p_result.ret.rd.accuracy[1] <= p_result.ret.rd.accuracy[2]

\* The items of a, in their order, are among the items of b from position j on.
RECURSIVE Embeds(_, _, _, _)
Embeds(a, i, b, j) ==
    IF i > Len(a) THEN TRUE
    ELSE IF j > Len(b) THEN FALSE
    ELSE IF a[i] = b[j] THEN Embeds(a, i + 1, b, j + 1)
    ELSE Embeds(a, i, b, j + 1)

\* C21: the index only grows.  Over every step a known scenario stays known,
\* its number_of_runs does not decrease, its date_last_played does not move
\* backward, every one of its sensitivity buckets is still there and still
\* holds, in the same order, every record it held.
C21_IndexOnlyGrows ==
    [][ \A m \in Modules : \A s \in DOMAIN kovaaks_database[m] :
           /\ s \in DOMAIN kovaaks_database'[m]
           /\ kovaaks_database'[m][s].scenario_stats.number_of_runs
                 >= kovaaks_database[m][s].scenario_stats.number_of_runs
           /\ kovaaks_database'[m][s].scenario_stats.date_last_played
                 >= kovaaks_database[m][s].scenario_stats.date_last_played
           /\ \A k \in DOMAIN kovaaks_database[m][s].sensitivities_vs_runs.map :
                 /\ k \in DOMAIN kovaaks_database'[m][s].sensitivities_vs_runs.map
                 /\ Embeds(kovaaks_database[m][s].sensitivities_vs_runs.map[k], 1,
                           kovaaks_database'[m][s].sensitivities_vs_runs.map[k], 1) ]_vars

\* C21 witness: the bulk load has made scenario A grow, in the index of its
\* module, to three runs in one bucket, the latest played (date 3) between the
\* two others.
C21_Witness ==
    /\ phase = "serving"
    /\ l_pc = "idle"
    /\ is_scenario_in_database(AppModule, "A")
    /\ get_scenario_stats(AppModule, "A").number_of_runs = 3
    /\ get_scenario_stats(AppModule, "A").date_last_played = 3
    /\ <<5000, "cm">> \in DOMAIN get_sensitivities_vs_runs(AppModule, "A").map
    /\ Len(get_sensitivities_vs_runs(AppModule, "A").map[<<5000, "cm">>]) = 3
    /\ get_sensitivities_vs_runs(AppModule, "A").map[<<5000, "cm">>][2].datetime_object = 3

\* p is the part of a name before its first "-": it holds no "-" and is
\* followed by one, or it is the whole of a name that holds none.
IsBeforeFirstHyphen(p, name) ==
    /\ \A i \in 1..Len(p) : p[i] # "-"
    /\ \/ p = name
       \/ /\ Len(p) < Len(name)
          /\ SubSeq(name, 1, Len(p)) = p
          /\ name[Len(p) + 1] = "-"

\* s is p without its leading and trailing whitespace.
IsStripped(s, p) ==
    /\ s # <<>> => (~IsSpace(s[1]) /\ ~IsSpace(s[Len(s)]))
    /\ \E i \in 0..Len(p) :
          /\ i + Len(s) <= Len(p)
          /\ SubSeq(p, i + 1, i + Len(s)) = s
          /\ \A j \in (1..i) \cup ((i + Len(s) + 1)..Len(p)) : IsSpace(p[j])

\* The pieces of a name.
Pieces(name) == {SubSeq(name, i, j) : i \in 1..(Len(name) + 1), j \in 0..Len(name)}

Listed == u_result.op = "get_unique_scenarios"

\* C22: the list get_unique_scenarios returns is in strictly ascending
\* lexicographic order (sorted, without duplicates), and its members are
\* exactly the stripped parts before the first "-" of the names of the regular
\* files of the directory that end in ".csv"; a subdirectory or a file of
\* another extension contributes nothing.
C22_UniqueScenariosSortedFromCsvNames ==
    Listed =>
       LET ret == u_result.ret
           names == {u_dir[i].name : i \in {j \in 1..Len(u_dir) :
                        /\ u_dir[j].is_file
                        /\ Len(u_dir[j].name) >= 4
                        /\ \A k \in 1..4 :
                              u_dir[j].name[Len(u_dir[j].name) - 4 + k]
                                 = <<".", "c", "s", "v">>[k]}}
       IN  /\ \A i \in 1..(Len(ret) - 1) : StrLess(ret[i], ret[i + 1], 1)
           /\ {ret[i] : i \in 1..Len(ret)} =
                 UNION { {s \in Pieces(name) :
                            \E p \in Pieces(name) :
                               IsBeforeFirstHyphen(p, name) /\ IsStripped(s, p)} :
                         name \in names }

\* C22 witness: the directory lists, in this order, a file of scenario B, a
\* subdirectory, and a file of scenario A whose name has blanks before the
\* scenario; the list returned is A, B.
C22_Witness ==
    /\ Listed
    /\ Len(u_dir) = 3
    /\ u_dir[1].name = <<"B", "-", "x", ".", "c", "s", "v">>
    /\ ~u_dir[2].is_file
    /\ u_dir[3].name = <<" ", "A", " ", " ", "-", "x", ".", "c", "s", "v">>
    /\ u_result.ret = << <<"A">>, <<"B">> >>

\* C23: the relevance filter of the handler is the test of the extension
\* only.  Whenever the watcher can take up an event, it can take up each one,
\* and its handling of a directory or of a file whose name does not end in
\* .csv returns at once with the index and the queue as they were, while its
\* handling of a .csv file, whatever the scenario and the date of the file (and
\* whether it parses or not), goes on to read that file.
C23_RelevanceFilterIsExtensionOnly ==
    (phase = "serving" /\ w_pc = "idle" /\ events < MaxEvents)
        => \A e \in Events :
              /\ ENABLED OnCreated(e)
              /\ ~ENABLED (/\ OnCreated(e)
                           /\ ~(/\ kovaaks_database' = kovaaks_database
                                /\ message_queue' = message_queue
                                /\ l_pc' = "idle"
                                /\ IF e.is_directory \/ ~e.csv
                                   THEN w_pc' = "idle" /\ w_exc' = "none"
                                   ELSE w_pc' = "sleep" /\ w_file' = e.file))

\* C23 witness: the handler has ingested the run of a first event, and a
\* second event, of a directory or of a file that is no .csv, has been
\* handled: no file was read for it, the queue holds the one notification and
\* the index the one run of the first event.
C23_Witness ==
    /\ phase = "serving"
    /\ events = 2
    /\ w_pc = "idle"
    /\ w_file = BaseFile
    /\ w_exc = "none"
    /\ Len(message_queue) = 1
    /\ DOMAIN kovaaks_database[PageModule] = {"A"}
    /\ TotalRecords(kovaaks_database[PageModule]["A"]) = 1

\* C24: a handler that has left a notification on the queue ingests a record
\* of the same scenario, score and sensitivity key.  The parse that
\* load_csv_file_into_database makes for the handler succeeds and gives those
\* of the first parse, and the handler then returns, without an exception,
\* with the bucket of the notified record one record larger.
C24_SecondParseAgreesWithFirst ==
    [][ /\ (w_pc = "load" /\ l_pc = "extract" /\ l_pc' # "extract")
            => LET r == extract_data_from_file(w_file)
               IN  IF r.st # "ok" THEN FALSE
                   ELSE /\ r.rd.scenario = w_run_data.scenario
                        /\ r.rd.score = w_run_data.score
                        /\ SensitivityKey(r.rd) = SensitivityKey(w_run_data)
        /\ (w_pc = "load" /\ w_pc' = "idle")
            => /\ w_exc' = "none"
               /\ BucketSizeIn(kovaaks_database'[PageModule], w_run_data)
                    = BucketSizeIn(kovaaks_database[PageModule], w_run_data) + 1 ]_vars

\* C25: a call of check_for_new_data on a queue that is not empty either finds
\* the oldest message to be of another scenario than the selected one, takes
\* exactly that message off the queue, the others staying in their order, and
\* returns no_update; or finds it to be of the selected scenario, leaves the
\* queue as it is and returns True.
C25_PollDropsForeignHead ==
    [][ (c_result' # c_result /\ message_queue # <<>>)
            => /\ c_result'.st = "ok"
               /\ IF Head(message_queue).scenario_name # c_result'.selected_scenario
                  THEN /\ message_queue' = Tail(message_queue)
                       /\ c_result'.ret = "no_update"
                  ELSE /\ message_queue' = message_queue
                       /\ c_result'.ret = "True" ]_vars

\* C26: under fair polling every notification the watcher puts on the queue
\* is eventually taken off it: whenever the queue holds a message, it is
\* empty at some later time.
C26_QueueEventuallyDrained ==
    (message_queue # <<>>) ~> (message_queue = <<>>)

\* C27: after every completed ingest (no call of load_csv_file_into_database
\* is under way), the number_of_runs of every scenario of the index is the sum
\* of the sizes of its sensitivity buckets.
C27_RunCountIsSumOfBucketSizes ==
    (l_pc = "idle")
        => \A m \in Modules : \A s \in DOMAIN kovaaks_database[m] :
              get_scenario_stats(m, s).number_of_runs
                 = TotalRecords(kovaaks_database[m][s])

\* C27 witness: the bulk load has ingested two runs of one bucket of scenario
\* A and one of a second bucket: the count is 3 for buckets of 2 and 1 runs,
\* and its last ingest is complete.
C27_Witness ==
    /\ phase = "serving"
    /\ l_pc = "idle"
    /\ is_scenario_in_database(AppModule, "A")
    /\ get_scenario_stats(AppModule, "A").number_of_runs = 3
    /\ get_sensitivities_vs_runs(AppModule, "A").keys
          = << <<5000, "cm">>, <<25000, "cm">> >>
    /\ Len(get_sensitivities_vs_runs(AppModule, "A").map[<<5000, "cm">>]) = 2
    /\ Len(get_sensitivities_vs_runs(AppModule, "A").map[<<25000, "cm">>]) = 1

\* C28: in every state, each record held in the bucket under key K of
\* scenario S is a record of scenario S whose key, made of its horizontal_sens
\* and its sens_scale, is K; and every scenario of the index has a bucket that
\* is not empty.
C28_RecordsFiledUnderOwnScenarioAndKey ==
    \A m \in Modules : \A s \in DOMAIN kovaaks_database[m] :
       LET sd == kovaaks_database[m][s].sensitivities_vs_runs
       IN  /\ \A k \in DOMAIN sd.map :
                 \A i \in 1..Len(sd.map[k]) :
                    /\ sd.map[k][i].scenario = s
                    /\ <<sd.map[k][i].horizontal_sens, sd.map[k][i].sens_scale>> = k
           /\ \E k \in DOMAIN sd.map : sd.map[k] # <<>>

\* C28 witness: the ingest of a run of a new sensitivity of scenario A has
\* created the bucket and not yet added the run: A has an empty bucket beside
\* one of one run, and the index holds scenario B too.
C28_Witness ==
    /\ phase = "init"
    /\ l_pc = "L179"
    /\ l_run_data.scenario = "A"
    /\ is_scenario_in_database(AppModule, "A")
    /\ is_scenario_in_database(AppModule, "B")
    /\ SensitivityKey(l_run_data) \in DOMAIN get_sensitivities_vs_runs(AppModule, "A").map
    /\ get_sensitivities_vs_runs(AppModule, "A").map[SensitivityKey(l_run_data)] = <<>>
    /\ <<5000, "cm">> \in DOMAIN get_sensitivities_vs_runs(AppModule, "A").map
    /\ Len(get_sensitivities_vs_runs(AppModule, "A").map[<<5000, "cm">>]) = 1

\* C29: in the existing-bucket case the rank the handler computes is at least
\* 1 and at most the size of the bucket plus 1; the handler then goes on to
\* the ingest, and when the ingest of the unchanged file returns, the record
\* at position nth_score counted from the high-score end of the bucket has the
\* score of the new record.
C29_RankIsPositionFromHighEnd ==
    [][ /\ (w_pc # "notify" /\ w_pc' = "notify")
            => /\ 1 <= w_nth_score'
               /\ w_nth_score' <= BucketSizeIn(kovaaks_database[PageModule], w_run_data) + 1
        /\ (w_pc = "notify" /\ w_pc' # "notify")
            => /\ w_pc' = "load"
               /\ w_nth_score' = w_nth_score
        /\ (w_pc = "load" /\ w_pc' = "idle" /\ w_nth_score >= 1 /\ ~w_changed)
            => LET n == BucketSizeIn(kovaaks_database'[PageModule], w_run_data)
               IN  /\ w_nth_score <= n
                   /\ FloatEq(kovaaks_database'[PageModule][w_run_data.scenario
                                  ].sensitivities_vs_runs.map[
                                  SensitivityKey(w_run_data)][n - w_nth_score + 1].score,
                              w_run_data.score) ]_vars

\* C30: what get_sensitivities_vs_runs_filtered returns holds, for no bucket,
\* more than top_n records, whatever top_n >= 0; with top_n = 0 it is the
\* empty mapping.
C30_AtMostTopNPerBucket ==
    (q_result.op = "get_sensitivities_vs_runs_filtered" /\ q_result.st = "ok")
        => LET res == q_result.val[1]
           IN  /\ \A k \in DOMAIN res.map :
                     Len(res.map[k]) <= q_result.top_n_scores
               /\ (q_result.top_n_scores = 0)
                     => (res.keys = <<>> /\ DOMAIN res.map = {})

====
